---- MODULE Spec2Model ----
(***************************************************************************)
(* Order-to-inventory consumption engine of the CAFECRAFT point of sale:   *)
(* POSService.create_order, create_draft_order, finalize_draft_order,      *)
(* void_order and _restock_from_order_consumption                          *)
(* (src/inventory/inventory_service.py) over the SQLite tables of          *)
(* src/database/schema.py, through the connections of src/database/db.py.  *)
(*                                                                         *)
(* Quantities and money are integers: a ledger quantity is counted in      *)
(* hundredths of the smallest recipe step, a wastage factor in percent, so *)
(* that base * quantity * (1 + wastage) is exact and the epsilon tolerance *)
(* of the validator is the comparison with 0.                              *)
(*                                                                         *)
(* inventory.recipe_inventory.InventoryService (the recipe resolver, the   *)
(* validator and the consumption engine behind                             *)
(* deduct_ingredients_for_sale) is imported by the service but is not part *)
(* of the source tree; it is modelled from sections 4.1-4.3 and 6 of the   *)
(* specification.                                                          *)
(***************************************************************************)
EXTENDS Integers, Sequences, FiniteSets, Bags, TLC

\* ---------------------------------------------------------------- bounds
\* orders the model lets the callers create
MaxOrders == 2

\* a nullable column holds NULL or Val(x)
NULL == <<>>
Val(x) == <<x>>
\* CURRENT_TIMESTAMP in a column that no operation reads back
CURRENT_TIMESTAMP == Val("now")

\* ------------------------------------------------------------- utilities
RECURSIVE SumSeq(_)
SumSeq(s) == IF s = <<>> THEN 0 ELSE Head(s) + SumSeq(Tail(s))

\* INSERT into a table whose rows no operation reads in rowid order: the
\* table is the bag of its rows (the autoincrement id is left out)
Insert(table, row) == table (+) SetToBag({row})

RECURSIVE InsertAll(_, _)
InsertAll(table, rows) ==
    IF rows = <<>> THEN table ELSE InsertAll(Insert(table, Head(rows)), Tail(rows))

\* the rows of a table that satisfy a condition, as a set of distinct rows
Rows(table) == BagToSet(table)

RECURSIVE SumQty(_, _)
\* SUM(qty) over the distinct rows S of a table, each counted as often as
\* the table holds it
SumQty(table, S) ==
    IF S = {} THEN 0
    ELSE LET r == CHOOSE x \in S : TRUE
         IN r.qty * CopiesIn(r, table) + SumQty(table, S \ {r})

Min(a, b) == IF a <= b THEN a ELSE b
Max(a, b) == IF a >= b THEN a ELSE b

\* --------------------------------------------------------------- catalog
\* products, ingredients and recipes: read-only for the order operations
InitialProducts ==
    << [id |-> 1, name |-> "Latte", price |-> 100, is_active |-> 1],
       [id |-> 2, name |-> "Mocha", price |-> 150, is_active |-> 1],
       [id |-> 3, name |-> "Cookie", price |-> 50, is_active |-> 1] >>

\* the products table: the catalog screens clear is_active when a product is
\* taken off the menu
VARIABLE products

ingredients ==
    << [id |-> 1, name |-> "coffee", unit |-> "kg"],
       [id |-> 2, name |-> "milk",   unit |-> "L"] >>

IngredientIds == {ingredients[i].id : i \in DOMAIN ingredients}

recipes ==
    << [id |-> 1, product_id |-> 1],
       [id |-> 2, product_id |-> 2] >>

\* recipe_items as first installed; wastage_factor in percent
InitialRecipeItems ==
    << [recipe_id |-> 1, ingredient_id |-> 1, qty |-> 20, unit |-> "kg", wastage_factor |-> 5],
       [recipe_id |-> 2, ingredient_id |-> 1, qty |-> 20, unit |-> "kg", wastage_factor |-> 0],
       [recipe_id |-> 2, ingredient_id |-> 2, qty |-> 40, unit |-> "L",  wastage_factor |-> 5] >>

\* the ledger as first stocked: four coffee lots and one milk lot. Neither
\* the expiry dates nor the restock times follow the lot ids (lot 1 was
\* topped up after lot 2 was bought)
InitialInventory ==
    << [id |-> 1, ingredient_id |-> 1, quantity |-> 25, last_restocked |-> 1, expiry_date |-> NULL],
       [id |-> 2, ingredient_id |-> 1, quantity |-> 15, last_restocked |-> 0, expiry_date |-> NULL],
       [id |-> 3, ingredient_id |-> 1, quantity |-> 20, last_restocked |-> 0, expiry_date |-> Val(9)],
       [id |-> 4, ingredient_id |-> 1, quantity |-> 10, last_restocked |-> 0, expiry_date |-> Val(5)],
       [id |-> 5, ingredient_id |-> 2, quantity |-> 50, last_restocked |-> 0, expiry_date |-> NULL] >>

\* the second in which the first call is made: no lot was restocked later
InitialClock == 1

\* ---------------------------------------------------------------- inputs
Users == {1}
PaymentMethods == {"Bank Transfer"}
Discounts == {50}
Reasons == {"mistake"}

\* cart lines as the POS view hands them over: id, quantity, price
Carts ==
    { << [id |-> 1, quantity |-> 1, price |-> 100] >>,
      << [id |-> 1, quantity |-> 2, price |-> 100],
         [id |-> 2, quantity |-> 1, price |-> 150] >> }

\* what the discount entry accepts: any number
DiscountPercents == {0, 50, 150}

\* carts that include a product sold without a recipe
CartsWithoutRecipe ==
    { << [id |-> 1, quantity |-> 1, price |-> 100],
         [id |-> 3, quantity |-> 1, price |-> 50] >> }

\* carts with a line whose product id is not in the products table
CartsWithMissingProduct ==
    { << [id |-> 3, quantity |-> 1, price |-> 50],
         [id |-> 9, quantity |-> 1, price |-> 10] >> }

\* ------------------------------------------------- ledger (inventory lots)
\* SumAvailable: the summed quantity of an ingredient's lots
SumAvailable(inv, ingredient_id) ==
    LET OfIngredient(l) == l.ingredient_id = ingredient_id
        lots == SelectSeq(inv, OfIngredient)
    IN SumSeq([i \in 1..Len(lots) |-> lots[i].quantity])

\* mutant of LotBefore: the lots are taken in the order of their ids
LotBefore_by_id(a, b) == a.id < b.id

\* the consumption order: lots with an expiry first, then ascending expiry,
\* ascending restock timestamp, ascending lot id
LotBefore(a, b) ==
    IF (a.expiry_date = NULL) # (b.expiry_date = NULL) THEN a.expiry_date # NULL
    ELSE IF a.expiry_date # NULL /\ a.expiry_date # b.expiry_date
         THEN a.expiry_date[1] < b.expiry_date[1]
    ELSE IF a.last_restocked # b.last_restocked THEN a.last_restocked < b.last_restocked
    ELSE a.id < b.id

RECURSIVE SortLots(_)
SortLots(lots) ==
    IF lots = {} THEN <<>>
    ELSE LET first == CHOOSE l \in lots : \A m \in lots \ {l} : LotBefore(l, m)
         IN <<first>> \o SortLots(lots \ {first})

ListLotsOrdered(inv, ingredient_id) ==
    SortLots({inv[i] : i \in {j \in DOMAIN inv : inv[j].ingredient_id = ingredient_id}})

\* mutant of ReduceOrDeleteLot: a lot that is used up is left as it was
ReduceOrDeleteLot_keeps_empty(inv, lot_id, new_qty) ==
    [i \in DOMAIN inv |->
        IF inv[i].id = lot_id /\ new_qty > 0 THEN [inv[i] EXCEPT !.quantity = new_qty]
        ELSE inv[i]]

\* mutant of ReduceOrDeleteLot: the quantity is set and the lot is never
\* deleted
ReduceOrDeleteLot_never_deletes(inv, lot_id, new_qty) ==
    [i \in DOMAIN inv |->
        IF inv[i].id = lot_id THEN [inv[i] EXCEPT !.quantity = new_qty] ELSE inv[i]]

\* ReduceOrDeleteLot(lotID, newQty): the lot is deleted when nothing is left
\* of it, else its quantity is set; a lot id that is gone matches no row
ReduceOrDeleteLot(inv, lot_id, new_qty) ==
    IF new_qty <= 0
    THEN LET Other(l) == l.id # lot_id IN SelectSeq(inv, Other)
    ELSE [i \in DOMAIN inv |->
            IF inv[i].id = lot_id THEN [inv[i] EXCEPT !.quantity = new_qty] ELSE inv[i]]

\* --------------------------------------------------------- recipe resolver
ProductRow(product_id) ==
    LET Is(p) == p.id = product_id IN SelectSeq(products, Is)

RecipeOf(product_id) ==
    LET Is(r) == r.product_id = product_id IN SelectSeq(recipes, Is)

\* mutant of Needed: the quantity of the cart line is left out
Needed_per_unit(base_qty, line_quantity, wastage_factor) ==
    (base_qty * (100 + wastage_factor)) \div 100

\* needed = base_qty * line_quantity * (1 + wastage_factor)
Needed(base_qty, line_quantity, wastage_factor) ==
    (base_qty * line_quantity * (100 + wastage_factor)) \div 100

\* the contributions of one cart line, one per recipe item, in recipe order
LineContributions(rcp, line) ==
    LET recipe == RecipeOf(line.product_id)
        InRecipe(ri) == recipe # <<>> /\ ri.recipe_id = recipe[1].id
        items == SelectSeq(rcp, InRecipe)
    IN [i \in 1..Len(items) |->
          [ingredient_id |-> items[i].ingredient_id,
           qty |-> Needed(items[i].qty, line.quantity, items[i].wastage_factor),
           unit |-> items[i].unit]]

\* mutant of LineError: only a missing product is refused, the active flag
\* is not looked at
LineError_missing_only(line, strict) ==
    LET p == ProductRow(line.product_id)
    IN IF p = <<>> THEN "InvalidProduct"
       ELSE IF RecipeOf(line.product_id) = <<>> /\ strict THEN "MissingRecipe"
       ELSE ""

\* the error a cart line raises by itself, "" when there is none
LineError(line, strict) ==
    LET p == ProductRow(line.product_id)
    IN IF p = <<>> \/ p[1].is_active # 1 THEN "InvalidProduct"
       ELSE IF RecipeOf(line.product_id) = <<>> /\ strict THEN "MissingRecipe"
       ELSE ""

\* mutant of Accumulate: every contribution is kept as a requirement of its
\* own
Accumulate_no_merge(acc, contribs) == [reqs |-> acc \o contribs, errors |-> {}]

RECURSIVE Accumulate(_, _)
\* adds the contributions to the running totals acc (a sequence in order of
\* first appearance); a contribution in another unit is a UnitMismatch
Accumulate(acc, contribs) ==
    IF contribs = <<>> THEN [reqs |-> acc, errors |-> {}]
    ELSE LET c == Head(contribs)
             at == {i \in DOMAIN acc : acc[i].ingredient_id = c.ingredient_id}
         IN IF at = {}
            THEN Accumulate(Append(acc, c), Tail(contribs))
            ELSE LET i == CHOOSE j \in at : TRUE
                 IN IF acc[i].unit # c.unit
                    THEN LET rest == Accumulate(acc, Tail(contribs))
                         IN [reqs |-> rest.reqs, errors |-> rest.errors \cup {"UnitMismatch"}]
                    ELSE Accumulate([acc EXCEPT ![i].qty = @ + c.qty], Tail(contribs))

RECURSIVE AllContributions(_, _)
AllContributions(rcp, cart) ==
    IF cart = <<>> THEN <<>>
    ELSE LineContributions(rcp, Head(cart)) \o AllContributions(rcp, Tail(cart))

\* Recipe Resolver: cart lines -> aggregated requirements plus errors
Resolve(rcp, cart, strict) ==
    LET lineErrors == {LineError(cart[i], strict) : i \in DOMAIN cart} \ {""}
        Usable(line) == LineError(line, TRUE) = ""
        acc == Accumulate(<<>>, AllContributions(rcp, SelectSeq(cart, Usable)))
    IN [reqs |-> acc.reqs, errors |-> lineErrors \cup acc.errors]

\* ------------------------------------------------------ inventory validator
\* mutant of Validate: the validator stops at the first shortage it finds
Validate_first_shortage_only(inv, reqs) ==
    LET Short(r) == SumAvailable(inv, r.ingredient_id) < r.qty
        short == SelectSeq(reqs, Short)
    IN [i \in 1..Min(Len(short), 1) |->
          [ingredient_id |-> short[i].ingredient_id,
           needed |-> short[i].qty,
           available |-> SumAvailable(inv, short[i].ingredient_id),
           shortfall |-> short[i].qty - SumAvailable(inv, short[i].ingredient_id),
           unit |-> short[i].unit]]

\* one shortage per ingredient whose summed lots are below the requirement
Validate(inv, reqs) ==
    LET Short(r) == SumAvailable(inv, r.ingredient_id) < r.qty
        short == SelectSeq(reqs, Short)
    IN [i \in 1..Len(short) |->
          [ingredient_id |-> short[i].ingredient_id,
           needed |-> short[i].qty,
           available |-> SumAvailable(inv, short[i].ingredient_id),
           shortfall |-> short[i].qty - SumAvailable(inv, short[i].ingredient_id),
           unit |-> short[i].unit]]

\* ------------------------------------------------------ consumption engine
RECURSIVE WalkLots(_, _, _)
\* walks the listed lots, reducing or deleting each until nothing remains
\* to take; returns the ledger and what could not be taken
WalkLots(inv, lots, remaining) ==
    IF lots = <<>> \/ remaining <= 0 THEN [inventory |-> inv, remaining |-> remaining]
    ELSE LET lot == Head(lots)
             take == Min(lot.quantity, remaining)
         IN WalkLots(ReduceOrDeleteLot(inv, lot.id, lot.quantity - take),
                     Tail(lots), remaining - take)

ConsumeMovement(req, order_id, performed_by) ==
    [ingredient_id |-> req.ingredient_id, movement_type |-> "consume", qty |-> req.qty,
     unit |-> req.unit, ref_type |-> "order", ref_id |-> order_id,
     performed_by |-> performed_by]

RECURSIVE Consume(_, _, _, _, _)
\* consumes the requirements one ingredient after the other; listed is the
\* lot list already read for the first of them. One consume movement per
\* ingredient records the total taken
Consume(d, reqs, listed, order_id, performed_by) ==
    IF reqs = <<>> THEN [ok |-> TRUE, db |-> d]
    ELSE LET req == Head(reqs)
             walked == WalkLots(d.inventory, listed, req.qty)
             d1 == [d EXCEPT !.inventory = walked.inventory,
                             !.inventory_movements =
                                 Insert(@, ConsumeMovement(req, order_id, performed_by))]
         IN IF walked.remaining > 0
            THEN [ok |-> FALSE, db |-> [d EXCEPT !.inventory = walked.inventory]]
            ELSE IF Tail(reqs) = <<>> THEN [ok |-> TRUE, db |-> d1]
            ELSE Consume(d1, Tail(reqs),
                         ListLotsOrdered(d1.inventory, Head(Tail(reqs)).ingredient_id),
                         order_id, performed_by)

\* what the pipeline reads of the ledger before its first write: the
\* validator's shortages and the lot list of the first ingredient
ReadShortages(d, rcp, cart_items) == Validate(d.inventory, Resolve(rcp, cart_items, TRUE).reqs)

ReadFirstLots(d, rcp, cart_items) ==
    LET reqs == Resolve(rcp, cart_items, TRUE).reqs
    IN IF reqs = <<>> THEN <<>> ELSE ListLotsOrdered(d.inventory, reqs[1].ingredient_id)

\* InventoryService.deduct_ingredients_for_sale: resolve, validate, consume.
\* seen holds the shortages and the first lot list as read. Returns the
\* error raised ("" for none) and the database after the writes made
deduct_ingredients_for_sale(d, rcp, cart_items, order_id, performed_by, strict_recipes, seen) ==
    LET resolved == Resolve(rcp, cart_items, strict_recipes)
        consumed == Consume(d, resolved.reqs, seen.listed, order_id, performed_by)
    IN IF resolved.errors # {}
       THEN [error |-> CHOOSE e \in resolved.errors : TRUE, db |-> d]
       ELSE IF seen.shortages # <<>> THEN [error |-> "InsufficientInventory", db |-> d]
       ELSE IF ~consumed.ok THEN [error |-> "InventoryRace", db |-> consumed.db]
       ELSE [error |-> "", db |-> consumed.db]

\* ------------------------------------------------------------ connections
\* mutant of Rollback: the writes made before the exception are committed
Rollback_commits(d, written) == written

\* get_db_connection: a block left by an exception never commits; closing
\* the connection discards what the transaction wrote
Rollback(d, written) == d

\* --------------------------------------------------------------- POSService
\* mutant of StrictRecipes: the pipeline is called with strict_recipes=False
StrictRecipes_off == FALSE

\* strict_recipes=True, as both callers of the pipeline pass it
StrictRecipes == TRUE

_normalize_payment_method(method) ==
    CASE method = "Cash" -> "cash"
      [] method = "GCash" -> "gcash"
      [] method = "Card" -> "card"
      [] method = "Bank Transfer" -> "other"
      [] OTHER -> "other"

\* orders.order_number is UNIQUE: a second order of the same kind within the
\* same second raises sqlite3.IntegrityError
OrderNumberTaken(d, order_number) ==
    \E i \in DOMAIN d.orders : d.orders[i].order_number = order_number

OrderRow(order_number, user_id, total_amount, payment_method, status, completed_at) ==
    [order_number |-> order_number, user_id |-> user_id, total_amount |-> total_amount,
     payment_method |-> payment_method, status |-> status, completed_at |-> completed_at,
     void_reason |-> NULL, voided_by |-> NULL, voided_at |-> NULL]

\* mutant of OrderItemRows: only the first cart line is stored
OrderItemRows_first_only(order_id, items) ==
    [i \in 1..1 |->
        [order_id |-> order_id, product_id |-> items[i].id, quantity |-> items[i].quantity,
         unit_price |-> items[i].price, subtotal |-> items[i].quantity * items[i].price]]

OrderItemRows(order_id, items) ==
    [i \in 1..Len(items) |->
        [order_id |-> order_id, product_id |-> items[i].id, quantity |-> items[i].quantity,
         unit_price |-> items[i].price, subtotal |-> items[i].quantity * items[i].price]]

SaleRows(items, user_id, notes) ==
    [i \in 1..Len(items) |->
        [type |-> "sale", product_id |-> Val(items[i].id), ingredient_id |-> NULL,
         quantity |-> items[i].quantity, total_amount |-> items[i].quantity * items[i].price,
         user_id |-> user_id, notes |-> notes]]

\* new_value: the fields the call formats into the audit text
AuditRow(user_id, action, record_id, new_value) ==
    [user_id |-> user_id, action |-> action, table_name |-> "orders", record_id |-> record_id,
     new_value |-> new_value]

\* mutant of PaymentRow: the status is left to the column default, 'paid'
PaymentRow_default_status(order_id, method, amount, status) ==
    [order_id |-> order_id, method |-> method, amount |-> amount, received |-> amount,
     status |-> "paid"]

PaymentRow(order_id, method, amount, status) ==
    [order_id |-> order_id, method |-> method, amount |-> amount, received |-> amount,
     status |-> status]

\* SELECT ... FROM orders WHERE id = ?: the row, or NULL
SelectOrder(d, order_id) ==
    IF order_id \in DOMAIN d.orders THEN Val(d.orders[order_id]) ELSE NULL

\* SELECT product_id, quantity, unit_price FROM order_items WHERE order_id = ?
SelectOrderItems(d, order_id) ==
    LET Of(r) == r.order_id = order_id IN SelectSeq(d.order_items, Of)

\* mutant of create_draft_order: an empty cart is not refused
create_draft_order_accepts_empty(d, now, user_id, items) ==
    LET order_number == <<"DRF", now>>
        order_id == Len(d.orders) + 1
        d1 == [d EXCEPT
                 !.orders = Append(@, OrderRow(order_number, user_id, 0, NULL, "draft", NULL)),
                 !.order_items = @ \o OrderItemRows(order_id, items),
                 !.audit_log = Insert(@, AuditRow(user_id, "HOLD_ORDER", order_id,
                                                    [order_number |-> order_number]))]
    IN IF OrderNumberTaken(d, order_number)
       THEN [result |-> NULL, error |-> "IntegrityError", db |-> Rollback(d, d)]
       ELSE [result |-> Val(order_id), error |-> "", db |-> d1]

create_draft_order(d, now, user_id, items) ==
    LET order_number == <<"DRF", now>>
        order_id == Len(d.orders) + 1
        d1 == [d EXCEPT
                 !.orders = Append(@, OrderRow(order_number, user_id, 0, NULL, "draft", NULL)),
                 !.order_items = @ \o OrderItemRows(order_id, items),
                 !.audit_log = Insert(@, AuditRow(user_id, "HOLD_ORDER", order_id,
                                                    [order_number |-> order_number]))]
    IN IF items = <<>> THEN [result |-> NULL, error |-> "EmptyCart", db |-> d]
       ELSE IF OrderNumberTaken(d, order_number)
            THEN [result |-> NULL, error |-> "IntegrityError", db |-> Rollback(d, d)]
       ELSE [result |-> Val(order_id), error |-> "", db |-> d1]

\* mutant of DiscountedTotal: the total is not floored
DiscountedTotal_no_floor(subtotal, discount_percent) ==
    subtotal - (subtotal * discount_percent) \div 100

\* total = subtotal - subtotal * disc / 100, floored at 0
DiscountedTotal(subtotal, discount_percent) ==
    Max(subtotal - (subtotal * discount_percent) \div 100, 0)

\* mutant of NotADraft: a voided order passes for a draft
NotADraft_voided_passes(order) == order = NULL \/ order[1].status = "completed"

\* mutant of NotADraft: only a missing order is refused
NotADraft_missing_only(order) == order = NULL

\* if not order or (order["status"] or "").lower() != "draft"
NotADraft(order) == order = NULL \/ order[1].status # "draft"

CartOfItems(items) ==
    [i \in 1..Len(items) |->
        [product_id |-> items[i].product_id, quantity |-> items[i].quantity]]

\* seen: what the call has read before its first write (the order row, its
\* items, the validator's shortages and the first lot list)
finalize_draft_order(d, now, rcp, order_id, user_id, payment_method, discount_percent, seen) ==
    LET order == seen.order
        items == seen.items
        subtotal == SumSeq([i \in 1..Len(items) |-> items[i].quantity * items[i].unit_price])
        total == DiscountedTotal(subtotal, discount_percent)
        cart_for_deduction == CartOfItems(items)
        deducted == deduct_ingredients_for_sale(d, rcp, cart_for_deduction, order_id,
                                                user_id, StrictRecipes, seen)
        pm_norm == _normalize_payment_method(payment_method)
        d1 == deducted.db
        d2 == [d1 EXCEPT
                 !.orders[order_id].total_amount = total,
                 !.orders[order_id].payment_method = Val(payment_method),
                 !.orders[order_id].status = "completed",
                 !.orders[order_id].completed_at = CURRENT_TIMESTAMP,
                 !.payments = Insert(@, PaymentRow(order_id, pm_norm, total, "paid")),
                 !.audit_log = Insert(@, AuditRow(user_id, "FINALIZE_DRAFT", order_id,
                                                  [total |-> total, method |-> pm_norm,
                                                   raw_payment |-> payment_method,
                                                   disc |-> discount_percent]))]
    IN IF NotADraft(order)
       THEN [result |-> FALSE, error |-> "NotADraft", db |-> Rollback(d, d)]
       ELSE IF items = <<>>
            THEN [result |-> FALSE, error |-> "NoItems", db |-> Rollback(d, d)]
       ELSE IF deducted.error # ""
            THEN [result |-> FALSE, error |-> deducted.error, db |-> Rollback(d, d1)]
       ELSE [result |-> TRUE, error |-> "", db |-> d2]

\* GROUP BY ingredient_id, unit is returned in key order
UnitOrder == <<"L", "g", "kg">>

GroupKeys ==
    [k \in 1..(Len(ingredients) * Len(UnitOrder)) |->
        [ingredient_id |-> ingredients[((k - 1) \div Len(UnitOrder)) + 1].id,
         unit |-> UnitOrder[((k - 1) % Len(UnitOrder)) + 1]]]

\* mutant of SelectConsumed: the WHERE clause leaves out ref_id
SelectConsumed_all_orders(d, order_id) ==
    LET Of(key) == {m \in Rows(d.inventory_movements) :
                      /\ m.ref_type = "order"
                      /\ m.movement_type = "consume"
                      /\ m.ingredient_id = key.ingredient_id /\ m.unit = key.unit}
        Present(key) == Of(key) # {}
        keys == SelectSeq(GroupKeys, Present)
    IN [k \in 1..Len(keys) |->
          [ingredient_id |-> keys[k].ingredient_id, unit |-> keys[k].unit,
           qty |-> SumQty(d.inventory_movements, Of(keys[k]))]]

\* SELECT ingredient_id, unit, SUM(qty) FROM inventory_movements WHERE
\* ref_type = 'order' AND ref_id = ? AND movement_type = 'consume' GROUP BY ...
SelectConsumed(d, order_id) ==
    LET Of(key) == {m \in Rows(d.inventory_movements) :
                      /\ m.ref_type = "order" /\ m.ref_id = order_id
                      /\ m.movement_type = "consume"
                      /\ m.ingredient_id = key.ingredient_id /\ m.unit = key.unit}
        Present(key) == Of(key) # {}
        keys == SelectSeq(GroupKeys, Present)
    IN [k \in 1..Len(keys) |->
          [ingredient_id |-> keys[k].ingredient_id, unit |-> keys[k].unit,
           qty |-> SumQty(d.inventory_movements, Of(keys[k]))]]

\* mutant of RestockRow: the refund is logged but the lot is booked with the
\* sign of a stock movement out
RestockRow_signed(d, now, r, order_id, performed_by) ==
    [d EXCEPT
       !.inventory = Append(@, [id |-> d.inventory_seq + 1, ingredient_id |-> r.ingredient_id,
                                quantity |-> 0 - r.qty, last_restocked |-> now,
                                expiry_date |-> NULL]),
       !.inventory_seq = @ + 1,
       !.inventory_movements =
           Insert(@, [ingredient_id |-> r.ingredient_id, movement_type |-> "refund",
                      qty |-> r.qty, unit |-> r.unit, ref_type |-> "order",
                      ref_id |-> order_id, performed_by |-> performed_by])]

\* mutant of RestockRow: the consume movements that are given back are
\* deleted from the log when the refund is written
RestockRow_deletes_consumed(d, now, r, order_id, performed_by) ==
    LET kept == {m \in Rows(d.inventory_movements) :
                   ~(/\ m.movement_type = "consume" /\ m.ref_id = order_id
                     /\ m.ingredient_id = r.ingredient_id)}
    IN [d EXCEPT
          !.inventory = Append(@, [id |-> d.inventory_seq + 1,
                                   ingredient_id |-> r.ingredient_id,
                                   quantity |-> r.qty, last_restocked |-> now,
                                   expiry_date |-> NULL]),
          !.inventory_seq = @ + 1,
          !.inventory_movements =
              Insert([m \in kept |-> CopiesIn(m, d.inventory_movements)],
                     [ingredient_id |-> r.ingredient_id, movement_type |-> "refund",
                      qty |-> r.qty, unit |-> r.unit, ref_type |-> "order",
                      ref_id |-> order_id, performed_by |-> performed_by])]

\* the three inserts of one consumed row: a new lot, a refund movement and
\* a legacy adjustment
RestockRow(d, now, r, order_id, performed_by) ==
    [d EXCEPT
       !.inventory = Append(@, [id |-> d.inventory_seq + 1, ingredient_id |-> r.ingredient_id,
                                quantity |-> r.qty, last_restocked |-> now,
                                expiry_date |-> NULL]),
       !.inventory_seq = @ + 1,
       !.inventory_movements =
           Insert(@, [ingredient_id |-> r.ingredient_id, movement_type |-> "refund",
                      qty |-> r.qty, unit |-> r.unit, ref_type |-> "order",
                      ref_id |-> order_id, performed_by |-> performed_by]),
       !.transactions =
           Insert(@, [type |-> "adjustment", product_id |-> NULL,
                      ingredient_id |-> Val(r.ingredient_id), quantity |-> r.qty,
                      total_amount |-> 0, user_id |-> performed_by, notes |-> NULL])]

\* mutant of _restock_from_order_consumption: only the first consumed row
\* is restocked
_restock_first_row_only(d, now, order_id, performed_by, consumed) ==
    IF consumed = <<>> \/ Head(consumed).qty <= 0 THEN d
    ELSE RestockRow(d, now, Head(consumed), order_id, performed_by)

RECURSIVE _restock_from_order_consumption(_, _, _, _, _)
\* consumed: the rows of SelectConsumed still to be restocked
_restock_from_order_consumption(d, now, order_id, performed_by, consumed) ==
    IF consumed = <<>> THEN d
    ELSE LET r == Head(consumed)
             d1 == IF r.qty <= 0 THEN d ELSE RestockRow(d, now, r, order_id, performed_by)
         IN _restock_from_order_consumption(d1, now, order_id, performed_by, Tail(consumed))

\* mutant of AlreadyVoided: a draft is taken for voided
AlreadyVoided_or_draft(row) == row[1].status \in {"voided", "draft"}

\* mutant of AlreadyVoided: the status is not looked at
AlreadyVoided_never(row) == FALSE

\* status = (row["status"] or "").lower(); if status == "voided"
AlreadyVoided(row) == row[1].status = "voided"

\* mutant of void_order: a missing order is not refused; the UPDATE matches
\* no row, the audit entry and the payment row are written and committed
void_order_unchecked(d, now, order_id, performed_by, reason, restock_ingredients, seen) ==
    LET row == seen.order
        d1 == IF restock_ingredients
              THEN _restock_from_order_consumption(d, now, order_id, performed_by,
                                                   seen.consumed)
              ELSE d
        written == [d1 EXCEPT
                      !.audit_log = Insert(@, AuditRow(performed_by, "VOID_ORDER", order_id,
                                                       [reason |-> reason,
                                                        restock |-> restock_ingredients])),
                      !.payments = Insert(@, PaymentRow(order_id, "other", 0, "voided"))]
        d2 == IF row = NULL THEN written
              ELSE [written EXCEPT
                      !.orders[order_id].status = "voided",
                      !.orders[order_id].void_reason = Val(reason),
                      !.orders[order_id].voided_by = Val(performed_by),
                      !.orders[order_id].voided_at = CURRENT_TIMESTAMP]
    IN IF row # NULL /\ AlreadyVoided(row) THEN [result |-> TRUE, error |-> "", db |-> d]
       ELSE [result |-> TRUE, error |-> "", db |-> d2]

\* mutant of void_order: the consumed ingredients are restocked whatever the
\* flag says
void_order_always_restocks(d, now, order_id, performed_by, reason, restock_ingredients, seen) ==
    LET row == seen.order
        d1 == _restock_from_order_consumption(d, now, order_id, performed_by,
                                              SelectConsumed(d, order_id))
        d2 == [d1 EXCEPT
                 !.orders[order_id].status = "voided",
                 !.orders[order_id].void_reason = Val(reason),
                 !.orders[order_id].voided_by = Val(performed_by),
                 !.orders[order_id].voided_at = CURRENT_TIMESTAMP,
                 !.audit_log = Insert(@, AuditRow(performed_by, "VOID_ORDER", order_id,
                                                  [reason |-> reason,
                                                   restock |-> restock_ingredients])),
                 !.payments = Insert(@, PaymentRow(order_id, "other", 0, "voided"))]
    IN IF row = NULL THEN [result |-> FALSE, error |-> "OrderNotFound", db |-> Rollback(d, d)]
       ELSE IF AlreadyVoided(row) THEN [result |-> TRUE, error |-> "", db |-> d]
       ELSE [result |-> TRUE, error |-> "", db |-> d2]

\* mutant of void_order: the items of the voided order are deleted
void_order_deletes_items(d, now, order_id, performed_by, reason, restock_ingredients, seen) ==
    LET row == seen.order
        OfOthers(r) == r.order_id # order_id
        d1 == IF restock_ingredients
              THEN _restock_from_order_consumption(d, now, order_id, performed_by,
                                                   seen.consumed)
              ELSE d
        d2 == [d1 EXCEPT
                 !.orders[order_id].status = "voided",
                 !.orders[order_id].void_reason = Val(reason),
                 !.orders[order_id].voided_by = Val(performed_by),
                 !.orders[order_id].voided_at = CURRENT_TIMESTAMP,
                 !.order_items = SelectSeq(@, OfOthers),
                 !.audit_log = Insert(@, AuditRow(performed_by, "VOID_ORDER", order_id,
                                                  [reason |-> reason,
                                                   restock |-> restock_ingredients])),
                 !.payments = Insert(@, PaymentRow(order_id, "other", 0, "voided"))]
    IN IF row = NULL THEN [result |-> FALSE, error |-> "OrderNotFound", db |-> Rollback(d, d)]
       ELSE IF AlreadyVoided(row) THEN [result |-> TRUE, error |-> "", db |-> d]
       ELSE [result |-> TRUE, error |-> "", db |-> d2]

\* seen: the order row and the consumed rows the call has read before its
\* first write
void_order(d, now, order_id, performed_by, reason, restock_ingredients, seen) ==
    LET row == seen.order
        d1 == IF restock_ingredients
              THEN _restock_from_order_consumption(d, now, order_id, performed_by,
                                                   seen.consumed)
              ELSE d
        d2 == [d1 EXCEPT
                 !.orders[order_id].status = "voided",
                 !.orders[order_id].void_reason = Val(reason),
                 !.orders[order_id].voided_by = Val(performed_by),
                 !.orders[order_id].voided_at = CURRENT_TIMESTAMP,
                 !.audit_log = Insert(@, AuditRow(performed_by, "VOID_ORDER", order_id,
                                                  [reason |-> reason,
                                                   restock |-> restock_ingredients])),
                 !.payments = Insert(@, PaymentRow(order_id, "other", 0, "voided"))]
    IN IF row = NULL THEN [result |-> FALSE, error |-> "OrderNotFound", db |-> Rollback(d, d)]
       ELSE IF AlreadyVoided(row) THEN [result |-> TRUE, error |-> "", db |-> d]
       ELSE [result |-> TRUE, error |-> "", db |-> d2]

CartOfLines(items) ==
    [i \in 1..Len(items) |-> [product_id |-> items[i].id, quantity |-> items[i].quantity]]

create_order(d, now, rcp, user_id, items, total_amount, payment_method, discount_percent) ==
    LET order_number == <<"ORD", now>>
        order_id == Len(d.orders) + 1
        d1 == [d EXCEPT !.orders = Append(@, OrderRow(order_number, user_id, total_amount,
                                                      Val(payment_method), "completed",
                                                      CURRENT_TIMESTAMP))]
        cart_for_deduction == CartOfLines(items)
        deducted == deduct_ingredients_for_sale(
                        d1, rcp, cart_for_deduction, order_id, user_id, StrictRecipes,
                        [shortages |-> ReadShortages(d1, rcp, cart_for_deduction),
                         listed |-> ReadFirstLots(d1, rcp, cart_for_deduction)])
        \* notes: the order number and, if discount_percent, the discount
        notes == Val([order_number |-> order_number,
                      disc |-> IF discount_percent # 0 THEN Val(discount_percent) ELSE NULL])
        pm_norm == _normalize_payment_method(payment_method)
        d2 == deducted.db
        d3 == [d2 EXCEPT
                 !.order_items = @ \o OrderItemRows(order_id, items),
                 !.transactions = InsertAll(@, SaleRows(items, user_id, notes)),
                 !.payments = Insert(@, PaymentRow(order_id, pm_norm, total_amount, "paid")),
                 !.audit_log = Insert(@, AuditRow(user_id, "CREATE_ORDER", order_id,
                                                  [order_number |-> order_number,
                                                   total |-> total_amount,
                                                   raw_payment |-> payment_method,
                                                   method |-> pm_norm]))]
    IN IF items = <<>> THEN [result |-> NULL, error |-> "EmptyCart", db |-> d]
       ELSE IF OrderNumberTaken(d, order_number)
            THEN [result |-> NULL, error |-> "IntegrityError", db |-> Rollback(d, d)]
       ELSE IF deducted.error # ""
            THEN [result |-> NULL, error |-> deducted.error, db |-> Rollback(d, d2)]
       ELSE [result |-> Val(order_id), error |-> "", db |-> d3]

\* ------------------------------------------------------------------ state
VARIABLES
    db,            \* the committed tables of the SQLite file
    recipe_items,  \* the recipe_items table (edited outside the order core)
    clock,         \* the wall clock, in seconds
    conn           \* per connection: the call it is running and what it has read

vars == <<db, recipe_items, products, clock, conn>>

Conns == {1, 2}

Stock(d) == [i \in IngredientIds |-> SumAvailable(d.inventory, i)]

InitialDb ==
    [orders |-> <<>>, order_items |-> <<>>, payments |-> EmptyBag,
     inventory |-> InitialInventory, inventory_seq |-> Len(InitialInventory),
     inventory_movements |-> EmptyBag, audit_log |-> EmptyBag, transactions |-> EmptyBag]

NothingSeen == [order |-> NULL, items |-> <<>>, shortages |-> <<>>, listed |-> <<>>,
                consumed |-> <<>>]

NoArgs == [user_id |-> NULL, payment_method |-> NULL, discount_percent |-> NULL,
           reason |-> NULL, restock_ingredients |-> NULL]

\* a connection between calls
Idle == [pc |-> "idle", op |-> "none", order_id |-> NULL, args |-> NoArgs,
         seen |-> NothingSeen]

Init ==
    /\ db = InitialDb
    /\ recipe_items = InitialRecipeItems
    /\ products = InitialProducts
    /\ clock = InitialClock
    /\ conn = [c \in Conns |-> Idle]

\* the total the POS view computes and hands to create_order
ViewTotal(items, discount_percent) ==
    LET subtotal == SumSeq([i \in 1..Len(items) |-> items[i].quantity * items[i].price])
    IN subtotal - (subtotal * discount_percent) \div 100

\* order ids a caller may name: the existing ones and the next one
OrderIds == 1..(Len(db.orders) + 1)

\* what a call that runs alone reads before its first write
SeenByFinalize(d, rcp, order_id) ==
    LET items == SelectOrderItems(d, order_id)
    IN [order |-> SelectOrder(d, order_id), items |-> items,
        shortages |-> ReadShortages(d, rcp, CartOfItems(items)),
        listed |-> ReadFirstLots(d, rcp, CartOfItems(items))]

SeenByVoid(d, order_id) ==
    [order |-> SelectOrder(d, order_id), consumed |-> SelectConsumed(d, order_id)]

\* ------------------------------------- one caller: every call runs alone
CreateOrder ==
    /\ Len(db.orders) < MaxOrders
    /\ \E user_id \in Users, items \in Carts, payment_method \in PaymentMethods,
          discount_percent \in Discounts :
          db' = create_order(db, clock, recipe_items, user_id, items,
                             ViewTotal(items, discount_percent), payment_method,
                             discount_percent).db
    /\ UNCHANGED <<recipe_items, products, clock, conn>>

CreateDraftOrder ==
    /\ Len(db.orders) < MaxOrders
    /\ \E user_id \in Users, items \in Carts :
          db' = create_draft_order(db, clock, user_id, items).db
    /\ UNCHANGED <<recipe_items, products, clock, conn>>

FinalizeDraftOrder ==
    /\ \E order_id \in OrderIds, user_id \in Users, payment_method \in PaymentMethods,
          discount_percent \in Discounts :
          db' = finalize_draft_order(db, clock, recipe_items, order_id, user_id,
                                     payment_method, discount_percent,
                                     SeenByFinalize(db, recipe_items, order_id)).db
    /\ UNCHANGED <<recipe_items, products, clock, conn>>

VoidOrder ==
    /\ \E order_id \in OrderIds, performed_by \in Users, reason \in Reasons,
          restock_ingredients \in BOOLEAN :
          db' = void_order(db, clock, order_id, performed_by, reason,
                           restock_ingredients, SeenByVoid(db, order_id)).db
    /\ UNCHANGED <<recipe_items, products, clock, conn>>

\* a second passes. Only the seconds in which an order number was issued
\* are told apart: no operation reads a timestamp except to compare order
\* numbers for equality and restock times for order. The clock stops when
\* no further order can be created: a lot restocked later has the higher id
\* as well, so its place among the lots does not depend on the second
Tick ==
    /\ Len(db.orders) < MaxOrders
    /\ \E i \in DOMAIN db.orders : db.orders[i].order_number[2] = clock
    /\ clock' = clock + 1
    /\ UNCHANGED <<db, recipe_items, products, conn>>

\* the Latte recipe is edited (outside the order core) to take twice the coffee
EditRecipe ==
    /\ recipe_items[1].qty = InitialRecipeItems[1].qty
    /\ recipe_items' = [recipe_items EXCEPT ![1].qty = 2 * @]
    /\ UNCHANGED <<db, products, clock, conn>>

Next ==
    \/ CreateOrder
    \/ CreateDraftOrder
    \/ FinalizeDraftOrder
    \/ VoidOrder
    \/ Tick
    \/ EditRecipe

Spec == Init /\ [][Next]_vars

\* ======================================================== properties (Spec)
\* the rows a step adds to a table
Added(before, after) == after (-) before

\* the audit rows of an action on an order
AuditRowsOf(log, action, order_id) ==
    {a \in Rows(log) : a.action = action /\ a.record_id = order_id}

\* the movements of one type recorded for an order and an ingredient
MovementsOf(movements, movement_type, order_id, ingredient_id) ==
    {m \in Rows(movements) :
       /\ m.movement_type = movement_type /\ m.ref_type = "order"
       /\ m.ref_id = order_id /\ m.ingredient_id = ingredient_id}

MovedQty(movements, movement_type, order_id, ingredient_id) ==
    SumQty(movements, MovementsOf(movements, movement_type, order_id, ingredient_id))

RECURSIVE Count(_, _)
\* how often a table holds the rows of S
Count(table, S) ==
    IF S = {} THEN 0
    ELSE LET r == CHOOSE x \in S : TRUE IN CopiesIn(r, table) + Count(table, S \ {r})

\* the lots whose id was issued after seq
LotsSince(inv, seq) == LET New(l) == l.id > seq IN SelectSeq(inv, New)

\* C1: after any sequence of checkout, create-draft, finalize-draft and void
\* (with or without restock), every inventory lot has quantity >= 0
C1_NoNegativeStock ==
    \A i \in DOMAIN db.inventory : db.inventory[i].quantity >= 0

\* a lot was partly reduced, a lot was used up and deleted, and a void has
\* restocked a lot
C1_Witness ==
    /\ \E i \in DOMAIN db.inventory, j \in DOMAIN InitialInventory :
          /\ db.inventory[i].id = InitialInventory[j].id
          /\ db.inventory[i].quantity < InitialInventory[j].quantity
    /\ \E j \in DOMAIN InitialInventory :
          \A i \in DOMAIN db.inventory : db.inventory[i].id # InitialInventory[j].id
    /\ LotsSince(db.inventory, Len(InitialInventory)) # <<>>

\* C2: a checkout or a finalize-draft that finds an ingredient whose summed
\* lots are below the aggregated requirement fails, and the committed state
\* is what it was (the order row the checkout inserts first included)
C2_ShortageChangesNothing ==
    /\ \A user_id \in Users, items \in Carts, payment_method \in PaymentMethods,
          discount_percent \in Discounts :
          LET call == create_order(db, clock, recipe_items, user_id, items,
                                   ViewTotal(items, discount_percent), payment_method,
                                   discount_percent)
              cart == CartOfLines(items)
              reqs == Resolve(recipe_items, cart, TRUE).reqs
          IN (\E k \in DOMAIN reqs :
                 SumAvailable(db.inventory, reqs[k].ingredient_id) < reqs[k].qty)
             => call.result = NULL /\ call.db = db
    /\ \A order_id \in DOMAIN db.orders, user_id \in Users,
          payment_method \in PaymentMethods, discount_percent \in Discounts :
          LET call == finalize_draft_order(db, clock, recipe_items, order_id, user_id,
                                           payment_method, discount_percent,
                                           SeenByFinalize(db, recipe_items, order_id))
              cart == CartOfItems(SelectOrderItems(db, order_id))
              reqs == Resolve(recipe_items, cart, TRUE).reqs
          IN (\E k \in DOMAIN reqs :
                 SumAvailable(db.inventory, reqs[k].ingredient_id) < reqs[k].qty)
             => call.result = FALSE /\ call.db = db

\* a checkout and the finalize of a draft both abort on a shortage
C2_Witness ==
    /\ \E user_id \in Users, items \in Carts, payment_method \in PaymentMethods,
          discount_percent \in Discounts :
          create_order(db, clock, recipe_items, user_id, items,
                       ViewTotal(items, discount_percent), payment_method,
                       discount_percent).error = "InsufficientInventory"
    /\ \E order_id \in DOMAIN db.orders, user_id \in Users,
          payment_method \in PaymentMethods, discount_percent \in Discounts :
          finalize_draft_order(db, clock, recipe_items, order_id, user_id, payment_method,
                               discount_percent,
                               SeenByFinalize(db, recipe_items, order_id)).error
            = "InsufficientInventory"

\* C3: void on an order that is already voided, with either value of the
\* restock flag, returns success and changes nothing
C3_VoidIdempotent ==
    \A order_id \in DOMAIN db.orders, performed_by \in Users, reason \in Reasons,
       restock_ingredients \in BOOLEAN :
       LET call == void_order(db, clock, order_id, performed_by, reason,
                              restock_ingredients, SeenByVoid(db, order_id))
       IN db.orders[order_id].status = "voided" => call.result = TRUE /\ call.db = db

\* an order that consumed stock has been voided with restock
C3_Witness ==
    \E order_id \in DOMAIN db.orders, i \in IngredientIds :
       /\ db.orders[order_id].status = "voided"
       /\ MovementsOf(db.inventory_movements, "consume", order_id, i) # {}
       /\ MovementsOf(db.inventory_movements, "refund", order_id, i) # {}

\* the step commits a void of the order with restock = true
VoidsWithRestock(order_id) ==
    \E a \in AuditRowsOf(Added(db.audit_log, db'.audit_log), "VOID_ORDER", order_id) :
       a.new_value.restock

\* the step commits a checkout or a finalize-draft of the order
Sells(order_id) ==
    \/ AuditRowsOf(Added(db.audit_log, db'.audit_log), "CREATE_ORDER", order_id) # {}
    \/ AuditRowsOf(Added(db.audit_log, db'.audit_log), "FINALIZE_DRAFT", order_id) # {}

LotQty(lots, ingredient_id) == SumAvailable(lots, ingredient_id)

\* C4: voiding a non-voided order with restock = true adds, for each
\* ingredient, new lot quantity equal to the sum of the order's recorded
\* consume movements and one refund movement of that quantity, whatever the
\* recipe says now; an order without consume movements adds no lot and no
\* refund
C4_RestockExactness ==
    [][\A order_id \in DOMAIN db.orders :
          VoidsWithRestock(order_id) =>
             /\ SubSeq(db'.inventory, 1, Len(db.inventory)) = db.inventory
             /\ \A i \in IngredientIds :
                   LET consumed == MovedQty(db.inventory_movements, "consume", order_id, i)
                       moved == Added(db.inventory_movements, db'.inventory_movements)
                       refunds == MovementsOf(moved, "refund", order_id, i)
                   IN /\ LotQty(LotsSince(db'.inventory, db.inventory_seq), i) = consumed
                      /\ Count(moved, refunds) = (IF consumed > 0 THEN 1 ELSE 0)
                      /\ \A m \in refunds : m.qty = consumed
             /\ BagCardinality(Added(db.inventory_movements, db'.inventory_movements))
                  = Cardinality({i \in IngredientIds :
                       MovedQty(db.inventory_movements, "consume", order_id, i) > 0})
      ]_vars

\* an order was voided with restock and refunded what it had consumed, which
\* is not what the recipe as edited since would ask for; and a draft was
\* voided with restock
C4_Witness ==
    /\ \E order_id \in DOMAIN db.orders :
          LET reqs == Resolve(recipe_items, CartOfItems(SelectOrderItems(db, order_id)),
                              TRUE).reqs
          IN /\ db.orders[order_id].status = "voided"
             /\ \E k \in DOMAIN reqs :
                   /\ MovedQty(db.inventory_movements, "refund", order_id,
                               reqs[k].ingredient_id) > 0
                   /\ MovedQty(db.inventory_movements, "refund", order_id,
                               reqs[k].ingredient_id) # reqs[k].qty
    /\ \E order_id \in DOMAIN db.orders :
          /\ \E a \in AuditRowsOf(db.audit_log, "VOID_ORDER", order_id) : a.new_value.restock
          /\ \A i \in IngredientIds :
                MovementsOf(db.inventory_movements, "consume", order_id, i) = {}

C6_ReversibleVoid ==
    /\ \A user_id \in Users, items \in Carts, payment_method \in PaymentMethods,
          discount_percent \in Discounts, reason \in Reasons :
          LET sold == create_order(db, clock, recipe_items, user_id, items,
                                   ViewTotal(items, discount_percent), payment_method,
                                   discount_percent)
              voided == void_order(sold.db, clock, sold.result[1], user_id, reason, TRUE,
                                   SeenByVoid(sold.db, sold.result[1]))
          IN sold.result # NULL =>
                /\ Stock(sold.db) # Stock(db)
                /\ voided.result = TRUE
                /\ Stock(voided.db) = Stock(db)
    /\ \A order_id \in DOMAIN db.orders, user_id \in Users,
          payment_method \in PaymentMethods, discount_percent \in Discounts,
          reason \in Reasons :
          LET sold == finalize_draft_order(db, clock, recipe_items, order_id, user_id,
                                           payment_method, discount_percent,
                                           SeenByFinalize(db, recipe_items, order_id))
              voided == void_order(sold.db, clock, order_id, user_id, reason, TRUE,
                                   SeenByVoid(sold.db, order_id))
          IN sold.result = TRUE =>
                /\ Stock(sold.db) # Stock(db)
                /\ voided.result = TRUE
                /\ Stock(voided.db) = Stock(db)

\* a checked-out order and a finalized draft have both been voided with
\* restock, and the stock is what it was at the start
C6_Witness ==
    /\ \E order_id \in DOMAIN db.orders, i \in IngredientIds :
          /\ AuditRowsOf(db.audit_log, "CREATE_ORDER", order_id) # {}
          /\ MovedQty(db.inventory_movements, "refund", order_id, i) > 0
    /\ \E order_id \in DOMAIN db.orders, i \in IngredientIds :
          /\ AuditRowsOf(db.audit_log, "FINALIZE_DRAFT", order_id) # {}
          /\ MovedQty(db.inventory_movements, "refund", order_id, i) > 0
    /\ \A order_id \in DOMAIN db.orders : db.orders[order_id].status = "voided"
    /\ Stock(db) = Stock(InitialDb)

C8_FinalizeNotADraft ==
    \A order_id \in OrderIds, user_id \in Users, payment_method \in PaymentMethods,
       discount_percent \in Discounts :
       LET call == finalize_draft_order(db, clock, recipe_items, order_id, user_id,
                                        payment_method, discount_percent,
                                        SeenByFinalize(db, recipe_items, order_id))
       IN (order_id \notin DOMAIN db.orders
             \/ db.orders[order_id].status \in {"completed", "voided"})
          => call.result = FALSE /\ call.error = "NotADraft" /\ call.db = db

\* a completed order and a voided order exist, each with stock left for its
\* items
C8_Witness ==
    \E completed \in DOMAIN db.orders, voided \in DOMAIN db.orders :
       /\ db.orders[completed].status = "completed"
       /\ db.orders[voided].status = "voided"
       /\ \A order_id \in {completed, voided} :
             /\ SelectOrderItems(db, order_id) # <<>>
             /\ ReadShortages(db, recipe_items,
                              CartOfItems(SelectOrderItems(db, order_id))) = <<>>

\* --------------------- two connections: reads before the first write of a
\* call are not part of its transaction (sqlite3 opens the transaction at
\* the first INSERT/UPDATE/DELETE); from there to the commit the call holds
\* the write lock, so its writes and later reads are one step
Running(c, op, order_id, args, pc, seen) ==
    [pc |-> pc, op |-> op, order_id |-> Val(order_id), args |-> args, seen |-> seen]

\* the call has returned and get_db_connection has closed the connection
Returned(res) == Idle

FinalizeOf(d, call) ==
    finalize_draft_order(d, clock, recipe_items, call.order_id[1], call.args.user_id,
                         call.args.payment_method, call.args.discount_percent, call.seen)

VoidOf(d, call) ==
    void_order(d, clock, call.order_id[1], call.args.user_id, call.args.reason,
               call.args.restock_ingredients, call.seen)

\* SELECT the order, SELECT its items
FinalizeBegin(c) ==
    /\ conn[c].pc = "idle"
    /\ \E order_id \in OrderIds, user_id \in Users, payment_method \in PaymentMethods,
          discount_percent \in Discounts :
          LET args == [NoArgs EXCEPT !.user_id = user_id,
                                     !.payment_method = payment_method,
                                     !.discount_percent = discount_percent]
              seen == [NothingSeen EXCEPT !.order = SelectOrder(db, order_id),
                                          !.items = SelectOrderItems(db, order_id)]
              call == Running(c, "finalize_draft_order", order_id, args, "validate", seen)
          IN conn' = [conn EXCEPT ![c] =
                        IF NotADraft(seen.order) \/ seen.items = <<>>
                        THEN Returned(FinalizeOf(db, call))
                        ELSE call]
    /\ UNCHANGED <<db, recipe_items, products, clock>>

\* the resolver and the validator: SELECT the summed lots
FinalizeValidate(c) ==
    /\ conn[c].pc = "validate"
    /\ LET cart == CartOfItems(conn[c].seen.items)
           call == [conn[c] EXCEPT !.seen.shortages = ReadShortages(db, recipe_items, cart),
                                   !.pc = "list"]
       IN conn' = [conn EXCEPT ![c] =
                     IF Resolve(recipe_items, cart, TRUE).errors # {}
                        \/ call.seen.shortages # <<>>
                     THEN Returned(FinalizeOf(db, call))
                     ELSE call]
    /\ UNCHANGED <<db, recipe_items, products, clock>>

\* the consumption engine lists the lots of the first ingredient
FinalizeList(c) ==
    /\ conn[c].pc = "list"
    /\ conn' = [conn EXCEPT ![c].seen.listed =
                               ReadFirstLots(db, recipe_items, CartOfItems(conn[c].seen.items)),
                            ![c].pc = "write"]
    /\ UNCHANGED <<db, recipe_items, products, clock>>

\* the first UPDATE or DELETE of a lot up to the commit
FinalizeWrite(c) ==
    /\ conn[c].pc = "write"
    /\ conn[c].op = "finalize_draft_order"
    /\ LET res == FinalizeOf(db, conn[c])
       IN /\ db' = res.db
          /\ conn' = [conn EXCEPT ![c] = Returned(res)]
    /\ UNCHANGED <<recipe_items, products, clock>>

\* SELECT the order
VoidBegin(c) ==
    /\ conn[c].pc = "idle"
    /\ \E order_id \in OrderIds, performed_by \in Users, reason \in Reasons,
          restock_ingredients \in BOOLEAN :
          LET args == [NoArgs EXCEPT !.user_id = performed_by, !.reason = reason,
                                     !.restock_ingredients = restock_ingredients]
              seen == [NothingSeen EXCEPT !.order = SelectOrder(db, order_id)]
              call == Running(c, "void_order", order_id, args,
                              IF restock_ingredients THEN "consumed" ELSE "write", seen)
          IN conn' = [conn EXCEPT ![c] =
                        IF seen.order = NULL \/ AlreadyVoided(seen.order)
                        THEN Returned(VoidOf(db, call))
                        ELSE call]
    /\ UNCHANGED <<db, recipe_items, products, clock>>

\* SELECT the summed consume movements of the order
VoidConsumed(c) ==
    /\ conn[c].pc = "consumed"
    /\ conn' = [conn EXCEPT ![c].seen.consumed = SelectConsumed(db, conn[c].order_id[1]),
                            ![c].pc = "write"]
    /\ UNCHANGED <<db, recipe_items, products, clock>>

\* the first INSERT or UPDATE up to the commit
VoidWrite(c) ==
    /\ conn[c].pc = "write"
    /\ conn[c].op = "void_order"
    /\ LET res == VoidOf(db, conn[c])
       IN /\ db' = res.db
          /\ conn' = [conn EXCEPT ![c] = Returned(res)]
    /\ UNCHANGED <<recipe_items, products, clock>>

\* create_order and create_draft_order write first (INSERT INTO orders), so
\* the whole call runs under the write lock
ConcNext ==
    \/ CreateOrder
    \/ CreateDraftOrder
    \/ \E c \in Conns : FinalizeBegin(c)
    \/ \E c \in Conns : FinalizeValidate(c)
    \/ \E c \in Conns : FinalizeList(c)
    \/ \E c \in Conns : FinalizeWrite(c)
    \/ \E c \in Conns : VoidBegin(c)
    \/ \E c \in Conns : VoidConsumed(c)
    \/ \E c \in Conns : VoidWrite(c)

ConcSpec == Init /\ [][ConcNext]_vars

\* ==================================================== properties (ConcSpec)
\* what the orders have taken of an ingredient and not given back
NetConsumed(d, ingredient_id) ==
    LET Of(movement_type) == {m \in Rows(d.inventory_movements) :
                                /\ m.movement_type = movement_type
                                /\ m.ingredient_id = ingredient_id}
    IN SumQty(d.inventory_movements, Of("consume"))
         - SumQty(d.inventory_movements, Of("refund"))

\* C9: of two concurrent order operations (checkout and/or finalize, each
\* on its own connection) that need the same ingredient, where the ledger
\* can satisfy only one, never both commit: no lot goes negative and the
\* total consumed never exceeds what was available
C9_NeverBothCommit ==
    /\ \A i \in DOMAIN db.inventory : db.inventory[i].quantity >= 0
    /\ \A i \in IngredientIds : NetConsumed(db, i) <= Stock(InitialDb)[i]

\* C10: under any interleaving of two finalize-draft calls on the same draft
\* order, at most one call succeeds, the order ends with at most one consume
\* movement per ingredient and with one paid payment row
C10_NoDoubleDeduction ==
    \A order_id \in DOMAIN db.orders :
       /\ Count(db.audit_log, AuditRowsOf(db.audit_log, "FINALIZE_DRAFT", order_id)) <= 1
       /\ \A i \in IngredientIds :
             Count(db.inventory_movements,
                   MovementsOf(db.inventory_movements, "consume", order_id, i)) <= 1
       /\ LET paid == Count(db.payments, {p \in Rows(db.payments) :
                                            p.order_id = order_id /\ p.status = "paid"})
          IN /\ paid <= 1
             /\ db.orders[order_id].status = "completed" => paid = 1

\* C11: for every order and ingredient the total of the order's refund
\* movements (each written with a restocked lot of the same quantity) never
\* exceeds the total of its consume movements, under any interleaving of two
\* void(restock = true) calls on the same order or of such a void with a
\* finalize of the order
C11_RefundWithinConsumed ==
    \A order_id \in DOMAIN db.orders, i \in IngredientIds :
       MovedQty(db.inventory_movements, "refund", order_id, i)
         <= MovedQty(db.inventory_movements, "consume", order_id, i)

\* what the consumption engine has written when a finalize that is about to
\* write finds out that it cannot take what it needs
RacedWrites(c) ==
    deduct_ingredients_for_sale(db, recipe_items, CartOfItems(conn[c].seen.items),
                                conn[c].order_id[1], conn[c].args.user_id, TRUE,
                                conn[c].seen)

\* C12: a consumption that has walked all lots of an ingredient with some of
\* the requirement left fails with InventoryRace, and the reductions and
\* deletions it has made are rolled back; every order operation that returns
\* failure leaves the committed state as it was before the call
C12_FailureChangesNothing ==
    /\ \A c \in Conns :
          conn[c].pc = "write" /\ conn[c].op = "finalize_draft_order" =>
             LET call == FinalizeOf(db, conn[c])
             IN /\ RacedWrites(c).error = "InventoryRace" =>
                      call.result = FALSE /\ call.error = "InventoryRace"
                /\ call.result = FALSE => call.db = db
    /\ \A user_id \in Users, items \in Carts \cup {<<>>},
          payment_method \in PaymentMethods, discount_percent \in Discounts :
          LET sold == create_order(db, clock, recipe_items, user_id, items,
                                   ViewTotal(items, discount_percent), payment_method,
                                   discount_percent)
              held == create_draft_order(db, clock, user_id, items)
          IN /\ sold.result = NULL => sold.db = db
             /\ held.result = NULL => held.db = db
    /\ \A order_id \in OrderIds, user_id \in Users, payment_method \in PaymentMethods,
          discount_percent \in Discounts, reason \in Reasons,
          restock_ingredients \in BOOLEAN :
          LET finalized == finalize_draft_order(db, clock, recipe_items, order_id, user_id,
                                                payment_method, discount_percent,
                                                SeenByFinalize(db, recipe_items, order_id))
              voided == void_order(db, clock, order_id, user_id, reason,
                                   restock_ingredients, SeenByVoid(db, order_id))
          IN /\ finalized.result = FALSE => finalized.db = db
             /\ voided.result = FALSE => voided.db = db

\* a finalize is about to write after a checkout on the other connection
\* took the stock it had validated: the engine deletes and reduces lots of
\* the first ingredient and then finds too little of the second
C12_Witness ==
    \E c \in Conns :
       /\ conn[c].pc = "write" /\ conn[c].op = "finalize_draft_order"
       /\ RacedWrites(c).error = "InventoryRace"
       /\ RacedWrites(c).db.inventory # db.inventory
       /\ RacedWrites(c).db.inventory_movements # db.inventory_movements

\* ------------------ one caller, with every input the POS view lets through
WideCarts == Carts \cup CartsWithoutRecipe \cup CartsWithMissingProduct

Checkout ==
    /\ Len(db.orders) < MaxOrders
    /\ \E user_id \in Users, items \in WideCarts,
          payment_method \in PaymentMethods, discount_percent \in DiscountPercents :
          db' = create_order(db, clock, recipe_items, user_id, items,
                             ViewTotal(items, discount_percent), payment_method,
                             discount_percent).db
    /\ UNCHANGED <<recipe_items, products, clock, conn>>

Hold ==
    /\ Len(db.orders) < MaxOrders
    /\ \E user_id \in Users, items \in WideCarts :
          db' = create_draft_order(db, clock, user_id, items).db
    /\ UNCHANGED <<recipe_items, products, clock, conn>>

Finalize ==
    /\ \E order_id \in OrderIds, user_id \in Users, payment_method \in PaymentMethods,
          discount_percent \in DiscountPercents :
          db' = finalize_draft_order(db, clock, recipe_items, order_id, user_id,
                                     payment_method, discount_percent,
                                     SeenByFinalize(db, recipe_items, order_id)).db
    /\ UNCHANGED <<recipe_items, products, clock, conn>>

\* the Mocha or the Cookie is taken off the menu (outside the order core)
DeactivateProduct ==
    /\ \E k \in {2, 3} :
          /\ products[k].is_active = 1
          /\ products' = [products EXCEPT ![k].is_active = 0]
    /\ UNCHANGED <<db, recipe_items, clock, conn>>

\* the coffee of the Mocha recipe is re-entered in grams (outside the order
\* core), while the Latte recipe keeps it in kilograms
EditRecipeUnit ==
    /\ recipe_items[2].unit = InitialRecipeItems[2].unit
    /\ recipe_items' = [recipe_items EXCEPT ![2].unit = "g"]
    /\ UNCHANGED <<db, products, clock, conn>>

WideNext ==
    \/ Checkout
    \/ Hold
    \/ Finalize
    \/ Tick
    \/ DeactivateProduct
    \/ EditRecipeUnit

WideSpec == Init /\ [][WideNext]_vars

\* ------------------------------------------------------ further properties
\* the rows a step appends to a table kept in insertion order
Appended(before, after) == SubSeq(after, Len(before) + 1, Len(after))

\* the step commits a create-draft of the order
Holds(order_id) ==
    AuditRowsOf(Added(db.audit_log, db'.audit_log), "HOLD_ORDER", order_id) # {}

\* C13: create-draft persists an order with status draft, total 0 and no
\* payment method, one order item per cart line and one HOLD_ORDER audit
\* entry; no lot is changed, no movement and no payment row is written
C13_CreateDraftFrame ==
    [][\A order_id \in DOMAIN db'.orders :
          Holds(order_id) =>
             LET order == db'.orders[order_id]
                 items == Appended(db.order_items, db'.order_items)
             IN /\ Appended(db.orders, db'.orders) = <<order>>
                /\ SubSeq(db'.orders, 1, Len(db.orders)) = db.orders
                /\ order.status = "draft"
                /\ order.total_amount = 0
                /\ order.payment_method = NULL
                /\ SubSeq(db'.order_items, 1, Len(db.order_items)) = db.order_items
                /\ \E cart \in Carts :
                      /\ Len(items) = Len(cart)
                      /\ \A k \in DOMAIN cart :
                            /\ items[k].order_id = order_id
                            /\ items[k].product_id = cart[k].id
                            /\ items[k].quantity = cart[k].quantity
                            /\ items[k].unit_price = cart[k].price
                /\ BagCardinality(Added(db.audit_log, db'.audit_log)) = 1
                /\ db'.inventory = db.inventory
                /\ db'.inventory_seq = db.inventory_seq
                /\ db'.inventory_movements = db.inventory_movements
                /\ db'.payments = db.payments
                /\ db'.transactions = db.transactions
      ]_vars

\* a cart of two lines is held as a draft after a checkout has consumed
\* stock
C13_Witness ==
    \E order_id \in DOMAIN db.orders :
       /\ AuditRowsOf(db.audit_log, "HOLD_ORDER", order_id) # {}
       /\ db.orders[order_id].status = "draft"
       /\ Len(SelectOrderItems(db, order_id)) > 1
       /\ db.inventory # InitialInventory

\* subtotal - subtotal * discount / 100 floored at 0, the subtotal being the
\* sum over the lines of quantity * unit price
FlooredTotal(quantities, prices, discount_percent) ==
    LET subtotal == SumSeq([k \in DOMAIN quantities |-> quantities[k] * prices[k]])
        total == subtotal - (subtotal * discount_percent) \div 100
    IN IF total < 0 THEN 0 ELSE total

PaidRows(payments, order_id) ==
    {p \in Rows(payments) : p.order_id = order_id /\ p.status = "paid"}

\* the discount percent a checkout wrote into the notes of its sale rows
DiscountNoted(d, order_id) ==
    LET noted == {t.notes[1].disc : t \in {x \in Rows(d.transactions) :
                     /\ x.type = "sale"
                     /\ x.notes[1].order_number = d.orders[order_id].order_number}}
        given == CHOOSE disc \in noted : TRUE
    IN IF given = NULL THEN 0 ELSE given[1]

\* C14: a direct checkout stores as the order's total and as the paid
\* payment amount subtotal - subtotal * discount / 100 floored at 0, for
\* every cart and discount percent
C14_CheckoutTotal ==
    \A order_id \in DOMAIN db.orders :
       AuditRowsOf(db.audit_log, "CREATE_ORDER", order_id) # {} =>
          LET stored == SelectOrderItems(db, order_id)
              total == FlooredTotal([k \in DOMAIN stored |-> stored[k].quantity],
                                    [k \in DOMAIN stored |-> stored[k].unit_price],
                                    DiscountNoted(db, order_id))
          IN /\ db.orders[order_id].total_amount = total
             /\ \A p \in PaidRows(db.payments, order_id) : p.amount = total

\* C15: a successful finalize-draft sets the order's status to completed
\* with a completion timestamp and the payment method, sets its total to
\* subtotal - subtotal * discount / 100 floored at 0, the subtotal recomputed
\* from the stored items, and adds one paid payment row for that total and
\* one FINALIZE_DRAFT audit entry
C15_FinalizeEffects ==
    \A order_id \in DOMAIN db.orders, user_id \in Users, payment_method \in PaymentMethods,
       discount_percent \in DiscountPercents :
       LET call == finalize_draft_order(db, clock, recipe_items, order_id, user_id,
                                        payment_method, discount_percent,
                                        SeenByFinalize(db, recipe_items, order_id))
           stored == SelectOrderItems(db, order_id)
           total == FlooredTotal([k \in DOMAIN stored |-> stored[k].quantity],
                                 [k \in DOMAIN stored |-> stored[k].unit_price],
                                 discount_percent)
           order == call.db.orders[order_id]
           paid == Added(db.payments, call.db.payments)
           logged == Added(db.audit_log, call.db.audit_log)
       IN call.result = TRUE =>
             /\ order.status = "completed"
             /\ order.completed_at # NULL
             /\ order.payment_method = Val(payment_method)
             /\ order.total_amount = total
             /\ BagCardinality(paid) = 1
             /\ \A p \in Rows(paid) :
                   p.order_id = order_id /\ p.status = "paid" /\ p.amount = total
             /\ BagCardinality(logged) = 1
             /\ \A a \in Rows(logged) : a.action = "FINALIZE_DRAFT" /\ a.record_id = order_id

\* a draft has been finalized with a discount above 100 percent and its
\* total is 0; another draft can still be finalized
C15_Witness ==
    /\ \E order_id \in DOMAIN db.orders :
          /\ db.orders[order_id].status = "completed"
          /\ db.orders[order_id].total_amount = 0
          /\ \E a \in AuditRowsOf(db.audit_log, "FINALIZE_DRAFT", order_id) :
                a.new_value.disc > 100
          /\ PaidRows(db.payments, order_id) # {}
    /\ \E order_id \in DOMAIN db.orders, user_id \in Users,
          payment_method \in PaymentMethods, discount_percent \in DiscountPercents :
          finalize_draft_order(db, clock, recipe_items, order_id, user_id, payment_method,
                               discount_percent,
                               SeenByFinalize(db, recipe_items, order_id)).result = TRUE

\* lot a comes before lot b: a has an expiry and b has none; else the
\* earlier expiry; else the earlier restock; else the lower id
Earlier(a, b) ==
    LET dated(l) == l.expiry_date # NULL
    IN \/ dated(a) /\ ~dated(b)
       \/ dated(a) /\ dated(b) /\ a.expiry_date[1] < b.expiry_date[1]
       \/ /\ dated(a) = dated(b) /\ a.expiry_date = b.expiry_date
          /\ \/ a.last_restocked < b.last_restocked
             \/ a.last_restocked = b.last_restocked /\ a.id < b.id

\* the lot as the ledger holds it, <<>> if it is gone
LotById(inv, lot_id) == LET Is(l) == l.id = lot_id IN SelectSeq(inv, Is)

\* C16: consumption takes the lots of an ingredient in one total order (an
\* expiry before none, ascending expiry, ascending restock timestamp,
\* ascending lot id): a lot is reduced or deleted only if every lot earlier
\* in that order has been fully consumed
C16_LotOrder ==
    [][\A order_id \in DOMAIN db'.orders :
          Sells(order_id) =>
             /\ \A k \in DOMAIN db'.inventory :
                   LotById(db.inventory, db'.inventory[k].id) # <<>>
             /\ \A a \in DOMAIN db.inventory, b \in DOMAIN db.inventory :
                   LET lot == db.inventory[a]
                       other == db.inventory[b]
                       left == LotById(db'.inventory, lot.id)
                   IN /\ left # <<>> => left[1].quantity <= lot.quantity
                      /\ left # <<>> => left[1].quantity > 0
                      /\ (/\ left # <<lot>>
                          /\ other.ingredient_id = lot.ingredient_id
                          /\ Earlier(other, lot))
                         => LotById(db'.inventory, other.id) = <<>>
             /\ \A a \in DOMAIN db.inventory, b \in DOMAIN db.inventory :
                   a # b /\ db.inventory[a].ingredient_id = db.inventory[b].ingredient_id
                   => Earlier(db.inventory[a], db.inventory[b])
                        # Earlier(db.inventory[b], db.inventory[a])
      ]_vars

\* both dated lots are used up and the undated lot restocked earlier is
\* partly reduced, while the undated lot with the lower id is as it was; and
\* a restocked lot is in the ledger
C16_Witness ==
    /\ LotById(db.inventory, 4) = <<>>
    /\ LotById(db.inventory, 3) = <<>>
    /\ LotById(db.inventory, 2) # <<>>
    /\ LotById(db.inventory, 2)[1].quantity < InitialInventory[2].quantity
    /\ LotById(db.inventory, 1) = <<InitialInventory[1]>>
    /\ LotsSince(db.inventory, Len(InitialInventory)) # <<>>

\* the ingredients the recipes of the order's products ask for
RequiredIngredients(d, rcp, order_id) ==
    LET items == SelectOrderItems(d, order_id)
    IN {rcp[k].ingredient_id : k \in {j \in DOMAIN rcp :
           \E n \in DOMAIN items, r \in DOMAIN recipes :
              /\ recipes[r].id = rcp[j].recipe_id
              /\ recipes[r].product_id = items[n].product_id}}

\* C17: a successful checkout or finalize-draft records one consume
\* movement per distinct required ingredient, carrying the total quantity
\* consumed for the ingredient and a reference to the order, however many
\* lots were touched
C17_OneMovementPerIngredient ==
    [][\A order_id \in DOMAIN db'.orders :
          Sells(order_id) =>
             LET moved == Added(db.inventory_movements, db'.inventory_movements)
                 required == RequiredIngredients(db', recipe_items, order_id)
             IN /\ BagCardinality(moved) = Cardinality(required)
                /\ \A i \in required :
                      \E m \in Rows(moved) :
                         /\ m.ingredient_id = i
                         /\ m.movement_type = "consume"
                         /\ m.ref_type = "order" /\ m.ref_id = order_id
                         /\ m.qty = Stock(db)[i] - Stock(db')[i]
                         /\ m.qty > 0
      ]_vars

\* an order of two lines that share an ingredient has one consume movement
\* for it, of more than the three largest lots hold together
C17_Witness ==
    \E order_id \in DOMAIN db.orders, i \in IngredientIds :
       /\ Len(SelectOrderItems(db, order_id)) > 1
       /\ Cardinality(RequiredIngredients(db, recipe_items, order_id)) > 1
       /\ Count(db.inventory_movements,
                MovementsOf(db.inventory_movements, "consume", order_id, i)) = 1
       /\ MovedQty(db.inventory_movements, "consume", order_id, i)
            > InitialInventory[1].quantity + InitialInventory[2].quantity
                + InitialInventory[3].quantity

\* C18: void succeeds on any existing order that is not voided, a draft as
\* well as a completed one: it sets the status to voided with the void
\* reason, actor and timestamp and adds one voided payment row and one
\* VOID_ORDER audit entry
C18_VoidEffects ==
    \A order_id \in DOMAIN db.orders, performed_by \in Users, reason \in Reasons,
       restock_ingredients \in BOOLEAN :
       LET call == void_order(db, clock, order_id, performed_by, reason,
                              restock_ingredients, SeenByVoid(db, order_id))
           order == call.db.orders[order_id]
           paid == Added(db.payments, call.db.payments)
           logged == Added(db.audit_log, call.db.audit_log)
       IN db.orders[order_id].status # "voided" =>
             /\ call.result = TRUE
             /\ order.status = "voided"
             /\ order.void_reason = Val(reason)
             /\ order.voided_by = Val(performed_by)
             /\ order.voided_at # NULL
             /\ \A other \in DOMAIN db.orders \ {order_id} :
                   call.db.orders[other] = db.orders[other]
             /\ BagCardinality(paid) = 1
             /\ \A p \in Rows(paid) : p.order_id = order_id /\ p.status = "voided"
             /\ BagCardinality(logged) = 1
             /\ \A a \in Rows(logged) : a.action = "VOID_ORDER" /\ a.record_id = order_id

\* a draft and a completed order have each been voided
C18_Witness ==
    \E held \in DOMAIN db.orders, sold \in DOMAIN db.orders :
       /\ AuditRowsOf(db.audit_log, "HOLD_ORDER", held) # {}
       /\ AuditRowsOf(db.audit_log, "FINALIZE_DRAFT", held) = {}
       /\ AuditRowsOf(db.audit_log, "CREATE_ORDER", sold) # {}
       /\ \A order_id \in {held, sold} :
             /\ db.orders[order_id].status = "voided"
             /\ db.orders[order_id].voided_at # NULL
             /\ Count(db.audit_log, AuditRowsOf(db.audit_log, "VOID_ORDER", order_id)) = 1
             /\ Count(db.payments, {p \in Rows(db.payments) :
                         p.order_id = order_id /\ p.status = "voided"}) = 1

\* C19: void on an order id that does not exist fails (OrderNotFound,
\* returns False) and changes nothing, with either value of the restock flag
C19_VoidMissingOrder ==
    \A order_id \in OrderIds \ DOMAIN db.orders, performed_by \in Users,
       reason \in Reasons, restock_ingredients \in BOOLEAN :
       LET call == void_order(db, clock, order_id, performed_by, reason,
                              restock_ingredients, SeenByVoid(db, order_id))
       IN call.result = FALSE /\ call.error = "OrderNotFound" /\ call.db = db

\* orders exist, one of them with consume movements, and the id after the
\* last one is free
C19_Witness ==
    /\ \E order_id \in DOMAIN db.orders, i \in IngredientIds :
          MovementsOf(db.inventory_movements, "consume", order_id, i) # {}
    /\ \E order_id \in OrderIds : SelectOrder(db, order_id) = NULL

\* the product of a line is missing from the products table or inactive
InvalidLine(product_id) ==
    ~\E k \in DOMAIN products : products[k].id = product_id /\ products[k].is_active = 1

\* the product has no recipe
WithoutRecipe(product_id) == \A r \in DOMAIN recipes : recipes[r].product_id # product_id

\* C20: checkout and finalize-draft resolve recipes in strict mode: if the
\* product of any cart line has no recipe the operation fails
\* (MissingRecipe, unless a line names a missing or inactive product, which
\* is reported first) with nothing persisted and nothing deducted; the line
\* is not skipped and the other lines are not deducted on their own
C20_StrictRecipes ==
    /\ \A user_id \in Users, items \in WideCarts,
          payment_method \in PaymentMethods, discount_percent \in DiscountPercents :
          LET sold == create_order(db, clock, recipe_items, user_id, items,
                                   ViewTotal(items, discount_percent), payment_method,
                                   discount_percent)
          IN (\E k \in DOMAIN items : WithoutRecipe(items[k].id)) =>
                /\ sold.result = NULL
                /\ sold.db = db
                /\ (/\ ~OrderNumberTaken(db, <<"ORD", clock>>)
                    /\ \A k \in DOMAIN items : ~InvalidLine(items[k].id))
                   => sold.error = "MissingRecipe"
    /\ \A order_id \in DOMAIN db.orders, user_id \in Users,
          payment_method \in PaymentMethods, discount_percent \in DiscountPercents :
          LET call == finalize_draft_order(db, clock, recipe_items, order_id, user_id,
                                           payment_method, discount_percent,
                                           SeenByFinalize(db, recipe_items, order_id))
              stored == SelectOrderItems(db, order_id)
          IN (\E k \in DOMAIN stored : WithoutRecipe(stored[k].product_id)) =>
                /\ call.result = FALSE
                /\ call.db = db
                /\ (/\ db.orders[order_id].status = "draft"
                    /\ \A k \in DOMAIN stored : ~InvalidLine(stored[k].product_id))
                   => call.error = "MissingRecipe"

\* a draft holds a line whose product has no recipe beside a line whose
\* recipe the stock covers, after a checkout has consumed stock
C20_Witness ==
    \E order_id \in DOMAIN db.orders :
       LET stored == SelectOrderItems(db, order_id)
       IN /\ db.orders[order_id].status = "draft"
          /\ \E k \in DOMAIN stored : WithoutRecipe(stored[k].product_id)
          /\ \E k \in DOMAIN stored : ~WithoutRecipe(stored[k].product_id)
          /\ \A k \in DOMAIN stored : ~InvalidLine(stored[k].product_id)
          /\ ReadShortages(db, recipe_items, CartOfItems(stored)) = <<>>
          /\ db.inventory # InitialInventory

\* the recipes of two valid products of the cart, or two items of one such
\* recipe, give the same ingredient in different units
MixedUnits(rcp, product_ids) ==
    \E a \in DOMAIN rcp, b \in DOMAIN rcp :
       /\ rcp[a].ingredient_id = rcp[b].ingredient_id
       /\ rcp[a].unit # rcp[b].unit
       /\ \A x \in {a, b} :
             \E r \in DOMAIN recipes :
                /\ recipes[r].id = rcp[x].recipe_id
                /\ recipes[r].product_id \in product_ids
                /\ ~InvalidLine(recipes[r].product_id)

\* a product of the cart that is on the menu has no recipe
Unresolved(product_ids) == \E i \in product_ids : ~InvalidLine(i) /\ WithoutRecipe(i)

\* C21: a checkout or finalize-draft whose lines reference a missing or
\* inactive product (also one deactivated after the draft was created), or
\* whose recipes contribute the same ingredient in two different units,
\* fails (InvalidProduct / UnitMismatch) before any ledger mutation and
\* leaves the committed state unchanged
C21_InvalidProductUnitMismatch ==
    /\ \A user_id \in Users, items \in WideCarts, payment_method \in PaymentMethods,
          discount_percent \in DiscountPercents :
          LET sold == create_order(db, clock, recipe_items, user_id, items,
                                   ViewTotal(items, discount_percent), payment_method,
                                   discount_percent)
              ids == {items[k].id : k \in DOMAIN items}
              invalid == \E i \in ids : InvalidLine(i)
              mixed == MixedUnits(recipe_items, ids)
              cart == CartOfLines(items)
              deducted == deduct_ingredients_for_sale(
                              db, recipe_items, cart, Len(db.orders) + 1, user_id,
                              StrictRecipes,
                              [shortages |-> ReadShortages(db, recipe_items, cart),
                               listed |-> ReadFirstLots(db, recipe_items, cart)])
          IN invalid \/ mixed =>
                /\ sold.result = NULL
                /\ sold.db = db
                /\ deducted.db = db
                /\ deducted.error \in {"InvalidProduct", "UnitMismatch", "MissingRecipe"}
                /\ ~OrderNumberTaken(db, <<"ORD", clock>>) => sold.error = deducted.error
                /\ invalid /\ ~mixed /\ ~Unresolved(ids) => deducted.error = "InvalidProduct"
                /\ mixed /\ ~invalid /\ ~Unresolved(ids) => deducted.error = "UnitMismatch"
    /\ \A order_id \in DOMAIN db.orders, user_id \in Users,
          payment_method \in PaymentMethods, discount_percent \in DiscountPercents :
          LET call == finalize_draft_order(db, clock, recipe_items, order_id, user_id,
                                           payment_method, discount_percent,
                                           SeenByFinalize(db, recipe_items, order_id))
              stored == SelectOrderItems(db, order_id)
              ids == {stored[k].product_id : k \in DOMAIN stored}
              invalid == \E i \in ids : InvalidLine(i)
              mixed == MixedUnits(recipe_items, ids)
          IN invalid \/ mixed =>
                /\ call.result = FALSE
                /\ call.db = db
                /\ db.orders[order_id].status = "draft" =>
                      /\ call.error \in {"InvalidProduct", "UnitMismatch", "MissingRecipe"}
                      /\ invalid /\ ~mixed /\ ~Unresolved(ids)
                            => call.error = "InvalidProduct"
                      /\ mixed /\ ~invalid /\ ~Unresolved(ids)
                            => call.error = "UnitMismatch"

\* drafts wait for their finalize while the stock covers each of them: one
\* holds a product that has been deactivated and a product id that is not in
\* the catalog, another two products on the menu whose recipes give coffee
\* in kilograms and in grams
C21_Witness ==
    \E inactive \in DOMAIN db.orders, missing \in DOMAIN db.orders,
       mixed \in DOMAIN db.orders :
       LET Ids(order_id) == {SelectOrderItems(db, order_id)[k].product_id :
                               k \in DOMAIN SelectOrderItems(db, order_id)}
       IN /\ \A order_id \in {inactive, missing, mixed} :
                /\ db.orders[order_id].status = "draft"
                /\ ReadShortages(db, recipe_items,
                                 CartOfItems(SelectOrderItems(db, order_id))) = <<>>
          /\ \E i \in Ids(inactive) :
                \E k \in DOMAIN products : products[k].id = i /\ products[k].is_active = 0
          /\ \E i \in Ids(missing) : \A k \in DOMAIN products : products[k].id # i
          /\ MixedUnits(recipe_items, Ids(mixed))

\* C22: inventory movement rows are append-only: no operation updates or
\* deletes a movement row, so the movements only grow, and a void with
\* restock reads every consume movement committed for the order
C22_MovementsAppendOnly ==
    [][/\ db.inventory_movements \sqsubseteq db'.inventory_movements
       /\ \A order_id \in DOMAIN db.orders :
             VoidsWithRestock(order_id) =>
                \A i \in IngredientIds :
                   LET read == SelectConsumed(db, order_id)
                       OfIngredient(r) == r.ingredient_id = i
                       rows == SelectSeq(read, OfIngredient)
                   IN SumSeq([k \in DOMAIN rows |-> rows[k].qty])
                        = MovedQty(db'.inventory_movements, "consume", order_id, i)
      ]_vars

\* an order was sold and voided with restock, and a later order was sold:
\* the log holds the consume and the refund movements of the first and the
\* consume movements of the second
C22_Witness ==
    \E first \in DOMAIN db.orders, second \in DOMAIN db.orders :
       /\ first < second
       /\ db.orders[first].status = "voided"
       /\ db.orders[second].status = "completed"
       /\ \E i \in IngredientIds :
             /\ MovementsOf(db.inventory_movements, "consume", first, i) # {}
             /\ MovementsOf(db.inventory_movements, "refund", first, i) # {}
             /\ MovementsOf(db.inventory_movements, "consume", second, i) # {}

\* the summed quantity of the lots of an ingredient
OnHand(inv, ingredient_id) ==
    SumSeq([k \in DOMAIN inv |->
              IF inv[k].ingredient_id = ingredient_id THEN inv[k].quantity ELSE 0])

\* C23: the validator reports a shortage for exactly the ingredients whose
\* summed lot quantity is less than the aggregated requirement, each with
\* shortfall = needed - available; an ingredient with sufficient stock is
\* never reported, and the operation goes on to consume only when the list
\* of shortages is empty
C23_ValidatorShortages ==
    \A items \in Carts, user_id \in Users :
       LET cart == CartOfLines(items)
           reqs == Resolve(recipe_items, cart, TRUE).reqs
           shortages == Validate(db.inventory, reqs)
           deducted == deduct_ingredients_for_sale(
                           db, recipe_items, cart, Len(db.orders) + 1, user_id,
                           StrictRecipes,
                           [shortages |-> ReadShortages(db, recipe_items, cart),
                            listed |-> ReadFirstLots(db, recipe_items, cart)])
       IN /\ {shortages[k].ingredient_id : k \in DOMAIN shortages}
               = {reqs[k].ingredient_id : k \in
                     {j \in DOMAIN reqs :
                        OnHand(db.inventory, reqs[j].ingredient_id) < reqs[j].qty}}
          /\ \A a \in DOMAIN shortages, b \in DOMAIN shortages :
                shortages[a].ingredient_id = shortages[b].ingredient_id => a = b
          /\ \A k \in DOMAIN shortages :
                \E j \in DOMAIN reqs :
                   /\ reqs[j].ingredient_id = shortages[k].ingredient_id
                   /\ shortages[k].needed = reqs[j].qty
                   /\ shortages[k].unit = reqs[j].unit
                   /\ shortages[k].available
                        = OnHand(db.inventory, shortages[k].ingredient_id)
                   /\ shortages[k].shortfall
                        = shortages[k].needed - shortages[k].available
                   /\ shortages[k].shortfall > 0
          /\ shortages # <<>> =>
                deducted.error = "InsufficientInventory" /\ deducted.db = db
          /\ shortages = <<>> =>
                /\ deducted.error = ""
                /\ \A k \in DOMAIN reqs :
                      OnHand(deducted.db.inventory, reqs[k].ingredient_id)
                        = OnHand(db.inventory, reqs[k].ingredient_id) - reqs[k].qty

\* after a sale the stock covers the milk of a cart but not its coffee, and
\* covers another cart in full
C23_Witness ==
    /\ db.inventory # InitialInventory
    /\ \E items \in Carts :
          LET reqs == Resolve(recipe_items, CartOfLines(items), TRUE).reqs
          IN /\ Len(reqs) > 1
             /\ Len(Validate(db.inventory, reqs)) = 1
    /\ \E items \in Carts :
          Validate(db.inventory, Resolve(recipe_items, CartOfLines(items), TRUE).reqs) = <<>>

\* one hundred times what the lines of a cart need of an ingredient: the sum
\* over the lines and over the recipe items of the line's product that name
\* the ingredient of base quantity * line quantity * (100 + wastage percent)
CombinedNeed(rcp, items, ingredient_id) ==
    SumSeq([k \in DOMAIN items |->
       SumSeq([j \in DOMAIN rcp |->
          IF /\ rcp[j].ingredient_id = ingredient_id
             /\ \E r \in DOMAIN recipes :
                   recipes[r].id = rcp[j].recipe_id /\ recipes[r].product_id = items[k].id
          THEN rcp[j].qty * items[k].quantity * (100 + rcp[j].wastage_factor)
          ELSE 0])])

\* C24: the requirement resolved for an ingredient is the sum, over every
\* cart line and every recipe item of the line's product that names the
\* ingredient, of base quantity * line quantity * (1 + wastage factor); lines
\* that share an ingredient are validated and consumed against their
\* combined need, not line by line
C24_CombinedRequirement ==
    \A items \in Carts, user_id \in Users, payment_method \in PaymentMethods,
       discount_percent \in Discounts :
       LET reqs == Resolve(recipe_items, CartOfLines(items), TRUE).reqs
           sold == create_order(db, clock, recipe_items, user_id, items,
                                ViewTotal(items, discount_percent), payment_method,
                                discount_percent)
           covered == \A i \in IngredientIds :
                         100 * OnHand(db.inventory, i) >= CombinedNeed(recipe_items, items, i)
       IN /\ \A i \in IngredientIds :
                LET of == {k \in DOMAIN reqs : reqs[k].ingredient_id = i}
                IN /\ Cardinality(of) = (IF CombinedNeed(recipe_items, items, i) > 0
                                         THEN 1 ELSE 0)
                   /\ \A k \in of : 100 * reqs[k].qty = CombinedNeed(recipe_items, items, i)
          /\ ~OrderNumberTaken(db, <<"ORD", clock>>) => (sold.result # NULL <=> covered)
          /\ sold.result # NULL =>
                \A i \in IngredientIds :
                   /\ 100 * (OnHand(db.inventory, i) - OnHand(sold.db.inventory, i))
                        = CombinedNeed(recipe_items, items, i)
                   /\ 100 * MovedQty(sold.db.inventory_movements, "consume",
                                     Len(db.orders) + 1, i)
                        = CombinedNeed(recipe_items, items, i)

\* the stock of coffee covers each line of a cart of two lines by itself
\* but not the two together
C24_Witness ==
    \E items \in Carts, i \in IngredientIds :
       /\ Len(items) > 1
       /\ \A k \in DOMAIN items :
             /\ CombinedNeed(recipe_items, <<items[k]>>, i) > 0
             /\ 100 * OnHand(db.inventory, i) >= CombinedNeed(recipe_items, <<items[k]>>, i)
       /\ 100 * OnHand(db.inventory, i) < CombinedNeed(recipe_items, items, i)
       /\ \E order_id \in DOMAIN db.orders :
             MovedQty(db.inventory_movements, "consume", order_id, i) > 0

\* the step reduces, changes or deletes a lot of the ledger
TouchesLots ==
    \E k \in DOMAIN db.inventory :
       LotById(db'.inventory, db.inventory[k].id) # <<db.inventory[k]>>

\* the step commits a void of the order
Voids(order_id) ==
    AuditRowsOf(Added(db.audit_log, db'.audit_log), "VOID_ORDER", order_id) # {}

\* the validator passes on the ledger the transaction of the step starts
\* from, for the aggregated requirements of the order's items
ValidatedInTransaction(order_id) ==
    Validate(db.inventory,
             Resolve(recipe_items, CartOfItems(SelectOrderItems(db', order_id)), TRUE).reqs)
      = <<>>

\* C25: lot quantities are reduced, and lots deleted, only by the consumption
\* step of checkout and finalize-draft, and only after the validator has
\* passed on the same aggregated requirements within the same transaction;
\* create-draft never touches the ledger and void never reduces or deletes
\* a lot
C25_LedgerOnlyByConsumption ==
    [][/\ TouchesLots =>
             \E order_id \in DOMAIN db'.orders :
                Sells(order_id) /\ ValidatedInTransaction(order_id)
       /\ \A order_id \in DOMAIN db'.orders :
             /\ Holds(order_id) => db'.inventory = db.inventory
             /\ Voids(order_id) => ~TouchesLots
      ]_vars

\* the step commits a finalize-draft of the order
Finalizes(order_id) ==
    AuditRowsOf(Added(db.audit_log, db'.audit_log), "FINALIZE_DRAFT", order_id) # {}

\* C26: the items of an order are fixed by the operation that created it:
\* finalize-draft and void never add, change or remove order-item rows, so
\* after a finalize the order has the items written when the draft was
\* created
C26_OrderItemsFixed ==
    [][/\ \A order_id \in DOMAIN db.orders :
             SelectOrderItems(db', order_id) = SelectOrderItems(db, order_id)
       /\ \A order_id \in DOMAIN db'.orders :
             Finalizes(order_id) \/ Voids(order_id) => db'.order_items = db.order_items
      ]_vars

\* a draft of two lines has been finalized and then voided and still has its
\* two items, beside another order
C26_Witness ==
    \E order_id \in DOMAIN db.orders, other \in DOMAIN db.orders :
       /\ other # order_id
       /\ AuditRowsOf(db.audit_log, "HOLD_ORDER", order_id) # {}
       /\ AuditRowsOf(db.audit_log, "FINALIZE_DRAFT", order_id) # {}
       /\ AuditRowsOf(db.audit_log, "VOID_ORDER", order_id) # {}
       /\ Len(SelectOrderItems(db, order_id)) > 1
       /\ SelectOrderItems(db, other) # <<>>

\* the lots of an ingredient that the step deletes, reduces and leaves alone
DeletedLots(i) ==
    {l \in {db.inventory[k] : k \in DOMAIN db.inventory} :
       l.ingredient_id = i /\ LotById(db'.inventory, l.id) = <<>>}

ReducedLots(i) ==
    {l \in {db.inventory[k] : k \in DOMAIN db.inventory} :
       /\ l.ingredient_id = i
       /\ LotById(db'.inventory, l.id) \notin {<<>>, <<l>>}}

KeptLots(i) ==
    {l \in {db.inventory[k] : k \in DOMAIN db.inventory} :
       l.ingredient_id = i /\ LotById(db'.inventory, l.id) = <<l>>}

\* C27: a successful consumption removes exactly the required quantity of
\* each ingredient: every lot it uses up is deleted, at most one lot per
\* ingredient is left partly reduced (by the remaining need), the lots after
\* that one are unchanged, and no lot with quantity 0 remains
C27_ConsumptionExact ==
    [][\A order_id \in DOMAIN db'.orders :
          Sells(order_id) =>
             /\ Len(db'.inventory) <= Len(db.inventory)
             /\ \A k \in DOMAIN db'.inventory : db'.inventory[k].quantity > 0
             /\ \A i \in IngredientIds :
                   LET items == SelectOrderItems(db', order_id)
                       cart == [k \in DOMAIN items |->
                                  [id |-> items[k].product_id,
                                   quantity |-> items[k].quantity]]
                       required == CombinedNeed(recipe_items, cart, i)
                       deleted == SumSeq([k \in DOMAIN db.inventory |->
                                     IF db.inventory[k] \in DeletedLots(i)
                                     THEN db.inventory[k].quantity ELSE 0])
                   IN /\ 100 * (OnHand(db.inventory, i) - OnHand(db'.inventory, i))
                           = required
                      /\ Cardinality(ReducedLots(i)) <= 1
                      /\ \A l \in ReducedLots(i) :
                            /\ 100 * (deleted + l.quantity
                                        - LotById(db'.inventory, l.id)[1].quantity) = required
                            /\ LotById(db'.inventory, l.id)[1]
                                 = [l EXCEPT !.quantity = LotById(db'.inventory, l.id)[1].quantity]
                            /\ \A a \in DeletedLots(i) : Earlier(a, l)
                            /\ \A b \in KeptLots(i) : Earlier(l, b)
                      /\ \A a \in DeletedLots(i), b \in KeptLots(i) : Earlier(a, b)
      ]_vars

\* of the four lots of coffee first stocked, one is gone, one is partly
\* reduced and one is as it was, and no lot has been restocked
C27_Witness ==
    /\ LotsSince(db.inventory, Len(InitialInventory)) = <<>>
    /\ \E a \in DOMAIN InitialInventory, b \in DOMAIN InitialInventory,
          c \in DOMAIN InitialInventory :
          /\ InitialInventory[a].ingredient_id = InitialInventory[b].ingredient_id
          /\ InitialInventory[b].ingredient_id = InitialInventory[c].ingredient_id
          /\ LotById(db.inventory, InitialInventory[a].id) = <<>>
          /\ LotById(db.inventory, InitialInventory[b].id) # <<>>
          /\ LotById(db.inventory, InitialInventory[b].id)[1].quantity
               < InitialInventory[b].quantity
          /\ LotById(db.inventory, InitialInventory[c].id) = <<InitialInventory[c]>>
    /\ \E order_id \in DOMAIN db.orders : db.orders[order_id].status = "completed"

\* C28: void with restock = false leaves the ledger and the movement log
\* unchanged: no lot is added, changed or removed and no movement is
\* written; only the order's status and void fields change, and one voided
\* payment row and one VOID_ORDER audit row are added
C28_VoidWithoutRestock ==
    \A order_id \in DOMAIN db.orders, performed_by \in Users, reason \in Reasons :
       LET call == void_order(db, clock, order_id, performed_by, reason, FALSE,
                              SeenByVoid(db, order_id))
           before == db.orders[order_id]
           after == call.db.orders[order_id]
           paid == Added(db.payments, call.db.payments)
           logged == Added(db.audit_log, call.db.audit_log)
       IN before.status # "voided" =>
             /\ call.result = TRUE
             /\ call.db.inventory = db.inventory
             /\ call.db.inventory_seq = db.inventory_seq
             /\ call.db.inventory_movements = db.inventory_movements
             /\ call.db.transactions = db.transactions
             /\ call.db.order_items = db.order_items
             /\ DOMAIN call.db.orders = DOMAIN db.orders
             /\ \A other \in DOMAIN db.orders \ {order_id} :
                   call.db.orders[other] = db.orders[other]
             /\ after.status = "voided"
             /\ after = [before EXCEPT !.status = after.status,
                                       !.void_reason = after.void_reason,
                                       !.voided_by = after.voided_by,
                                       !.voided_at = after.voided_at]
             /\ db.payments \sqsubseteq call.db.payments
             /\ BagCardinality(paid) = 1
             /\ \A p \in Rows(paid) : p.order_id = order_id /\ p.status = "voided"
             /\ db.audit_log \sqsubseteq call.db.audit_log
             /\ BagCardinality(logged) = 1
             /\ \A a \in Rows(logged) :
                   a.action = "VOID_ORDER" /\ a.record_id = order_id /\ ~a.new_value.restock

\* an order that has consumed stock was voided without restock: it has no
\* refund movement and no lot was added; another order that has consumed
\* stock can still be voided
C28_Witness ==
    \E order_id \in DOMAIN db.orders, other \in DOMAIN db.orders :
       /\ db.orders[order_id].status = "voided"
       /\ \E a \in AuditRowsOf(db.audit_log, "VOID_ORDER", order_id) : ~a.new_value.restock
       /\ \E i \in IngredientIds :
             MovementsOf(db.inventory_movements, "consume", order_id, i) # {}
       /\ \A i \in IngredientIds :
             MovementsOf(db.inventory_movements, "refund", order_id, i) = {}
       /\ LotsSince(db.inventory, Len(InitialInventory)) = <<>>
       /\ db.orders[other].status = "completed"
       /\ \E i \in IngredientIds :
             MovementsOf(db.inventory_movements, "consume", other, i) # {}

\* the payment rows of an order with a given status
PaymentsOf(payments, order_id, status) ==
    {p \in Rows(payments) : p.order_id = order_id /\ p.status = status}

\* the order is completed or was completed before it was voided
EverCompleted(order_id) ==
    \/ db.orders[order_id].status = "completed"
    \/ AuditRowsOf(db.audit_log, "CREATE_ORDER", order_id) # {}
    \/ AuditRowsOf(db.audit_log, "FINALIZE_DRAFT", order_id) # {}

WithItemlessDraft(d) ==
    [d EXCEPT !.orders = Append(@, OrderRow(<<"DRF", 0>>, 1, 0, NULL, "draft", NULL))]

\* C30: every persisted order has at least one order item: create_order and
\* create_draft_order with an empty cart return None and persist nothing,
\* and finalize-draft on a draft that has no items fails without deducting
\* inventory or changing the order
C30_NoEmptyOrder ==
    /\ \A order_id \in DOMAIN db.orders : SelectOrderItems(db, order_id) # <<>>
    /\ \A user_id \in Users, payment_method \in PaymentMethods,
          discount_percent \in Discounts :
          LET sold == create_order(db, clock, recipe_items, user_id, <<>>,
                                   ViewTotal(<<>>, discount_percent), payment_method,
                                   discount_percent)
              held == create_draft_order(db, clock, user_id, <<>>)
              d == WithItemlessDraft(db)
              call == finalize_draft_order(d, clock, recipe_items, Len(d.orders), user_id,
                                           payment_method, discount_percent,
                                           SeenByFinalize(d, recipe_items, Len(d.orders)))
          IN /\ sold.result = NULL /\ sold.db = db
             /\ held.result = NULL /\ held.db = db
             /\ call.result = FALSE /\ call.error = "NoItems" /\ call.db = d

\* a draft and a completed order are persisted, each with its items, and
\* the order numbers of this second are free: a cart with a line would be
\* held
C30_Witness ==
    /\ \E held \in DOMAIN db.orders, sold \in DOMAIN db.orders :
          /\ db.orders[held].status = "draft"
          /\ db.orders[sold].status = "completed"
          /\ SelectOrderItems(db, held) # <<>>
          /\ SelectOrderItems(db, sold) # <<>>
    /\ \E user_id \in Users, items \in Carts :
          create_draft_order(db, clock, user_id, items).result # NULL
    /\ \A user_id \in Users : create_draft_order(db, clock, user_id, <<>>).result = NULL

====
